---------------------------- MODULE Spec2Model ----------------------------
(***************************************************************************)
(* A model of the configuration-resolution core of CPPython-Core:          *)
(*   - construction and resolution of the PEP 621 project table            *)
(*     (schema.py PEP621, resolution.py resolve_pep621),                   *)
(*   - the plugin identity derived from a plugin type's name,              *)
(*   - resolution of the tool configuration against the file system        *)
(*     (resolution.py resolve_cppython, resolve_cppython_plugin),          *)
(*   - the extraction of a plugin's table from the tool configuration,     *)
(*   - the validation of a free-form payload against a model               *)
(*     (resolve_model),                                                    *)
(*   - the resolutions run on configuration objects held by reference,     *)
(*     with the copies and assignments they make (schema.py resolve,       *)
(*     generator_resolve; resolution.py),                                  *)
(*   - two resolutions that make their directories at the same time, by    *)
(*     the system calls of Path.mkdir(parents=True, exist_ok=True)         *)
(*     (resolution.py),                                                    *)
(*   - the per-class logger of the plugins (schema.py Plugin.logger),      *)
(*   - subprocess_call with its child process and logger (utility.py),     *)
(*   - the population of aliased model fields from keyed data              *)
(*     (schema.py CPPythonModel.Config, CPPythonData),                     *)
(*   - the scheduling of the plugins' tooling downloads and of their other *)
(*     operations by the host, as the specification's scheduling model     *)
(*     describes it (the library declares the operations only),            *)
(*   - the group data of each plugin kind: resolve_generator,              *)
(*     resolve_provider, resolve_scm (resolution.py),                      *)
(*   - construction of a ProjectConfiguration with its verbosity clamp and *)
(*     resolve_project_configuration (schema.py, resolution.py),           *)
(*   - construction of and assignment to the resolved-form models          *)
(*     (schema.py CPPythonModel.Config, CPPythonDataResolved,              *)
(*     PEP621Resolved),                                                    *)
(*   - the sync negotiation between a generator and a provider             *)
(*     (SyncProducer.supported_sync_type, SyncProducer.sync_data).         *)
(* Each family of operations has a specification of its own; a variable a  *)
(* specification does not use keeps its idle value there.                  *)
(***************************************************************************)
EXTENDS Integers, Sequences, FiniteSets

VARIABLES
    pep621_configuration,  \* the last PEP621 object construction: arguments, outcome, object
    project_configuration, \* the ProjectConfiguration handed to resolution
    pep621_call,           \* the last call of resolve_pep621: arguments, outcome, SCM queries
    type_name,             \* the declared type name of a plugin implementation
    identity_call,         \* the last call of resolve_full_name / resolve_name / resolve_group
    fs,                    \* the file system: its directories and regular files
    cppython_call,         \* the last call of resolve_cppython
    cppython_recall,       \* a repeated call of resolve_cppython with the same arguments
    plugin_calls,          \* per plugin type, the call of resolve_cppython_plugin
    resolves,              \* number of calls of resolve_cppython so far
    local_tables,          \* the provider and generator tables of the local configuration
    extraction,            \* the last call of extract_provider_data / extract_generator_data
    model_call,            \* the last call of resolve_model: target model, payload, outcome
    producer,              \* the sync types a provider plugin supports
    sync_calls,            \* per sync type, the probe and the fetch made of the producer
    resolved_model,        \* a resolved-form model object: its class, construction and fields
    assignment,            \* the last assignment to a field of the resolved-form object
    project_construction,  \* the last construction of a ProjectConfiguration
    project_resolution,    \* the last call of resolve_project_configuration
    core_data,             \* the core plugin data the group data are resolved from
    group_calls,           \* per plugin kind, the last call of resolve_generator, resolve_provider or resolve_scm
    tooling,               \* per plugin, the state of its download_tooling
    operations,            \* per plugin, the last of its other operations and the tooling state it started in
    activated,             \* the plugins that were activated
    failures,              \* the plugins whose activation ended in a fatal error
    child,                 \* the child process of subprocess_call: its unread output and return code
    process_log,           \* the records the logger received, in order
    process_call,          \* the call of subprocess_call: its arguments, position and outcome
    alias_construction,    \* the last construction of a model with aliased fields from keyed data
    class_loggers,         \* per plugin class, the _logger attribute set on the class itself
    logger_calls,          \* per plugin class, what its calls of logger() returned
    heap,                  \* the configuration objects, each at its identity
    frame_call,            \* the last resolution run on objects of the heap
    workers                \* per concurrent resolution, its directories, its activations of mkdir and its outcome

vars == <<pep621_configuration, project_configuration, pep621_call,
          type_name, identity_call, fs, cppython_call, cppython_recall,
          plugin_calls, resolves, local_tables, extraction, model_call,
          producer, sync_calls, resolved_model, assignment,
          project_construction, project_resolution, core_data, group_calls,
          tooling, operations, activated, failures, child, process_log,
          process_call, alias_construction, class_loggers, logger_calls,
          heap, frame_call, workers>>

pep621_vars == <<pep621_configuration, project_configuration, pep621_call>>
identity_vars == <<type_name, identity_call>>
cppython_vars == <<fs, cppython_call, cppython_recall, plugin_calls, resolves>>
extract_vars == <<local_tables, extraction>>
model_vars == <<model_call>>
sync_vars == <<producer, sync_calls>>
resolved_vars == <<resolved_model, assignment>>
project_vars == <<project_construction, project_resolution>>
group_vars == <<core_data, group_calls>>
tooling_vars == <<tooling, operations, activated, failures>>
process_vars == <<child, process_log, process_call>>
alias_vars == <<alias_construction>>
logger_vars == <<class_loggers, logger_calls>>
frame_vars == <<heap, frame_call>>
race_vars == <<workers>>

\* What the actions of one family of operations leave alone: the variables of
\* the other families.
not_pep621_vars == <<identity_vars, cppython_vars, extract_vars,
                     model_vars, sync_vars, resolved_vars, project_vars,
                     group_vars, tooling_vars, process_vars, alias_vars,
                     logger_vars, frame_vars, race_vars>>
not_identity_vars == <<pep621_vars, cppython_vars, extract_vars,
                       model_vars, sync_vars, resolved_vars, project_vars,
                       group_vars, tooling_vars, process_vars, alias_vars,
                       logger_vars, frame_vars, race_vars>>
not_cppython_vars == <<pep621_vars, identity_vars, extract_vars,
                       model_vars, sync_vars, resolved_vars, project_vars,
                       group_vars, tooling_vars, process_vars, alias_vars,
                       logger_vars, frame_vars, race_vars>>
not_extract_vars == <<pep621_vars, identity_vars, cppython_vars,
                      model_vars, sync_vars, resolved_vars, project_vars,
                      group_vars, tooling_vars, process_vars, alias_vars,
                      logger_vars, frame_vars, race_vars>>
not_model_vars == <<pep621_vars, identity_vars, cppython_vars,
                    extract_vars, sync_vars, resolved_vars, project_vars,
                    group_vars, tooling_vars, process_vars, alias_vars,
                    logger_vars, frame_vars, race_vars>>
not_sync_vars == <<pep621_vars, identity_vars, cppython_vars, extract_vars,
                   model_vars, resolved_vars, project_vars, group_vars,
                   tooling_vars, process_vars, alias_vars, logger_vars,
                   frame_vars, race_vars>>
not_resolved_vars == <<pep621_vars, identity_vars, cppython_vars,
                       extract_vars, model_vars, sync_vars, project_vars,
                       group_vars, tooling_vars, process_vars, alias_vars,
                       logger_vars, frame_vars, race_vars>>
not_project_vars == <<pep621_vars, identity_vars, cppython_vars,
                      extract_vars, model_vars, sync_vars, resolved_vars,
                      group_vars, tooling_vars, process_vars, alias_vars,
                      logger_vars, frame_vars, race_vars>>
not_group_vars == <<pep621_vars, identity_vars, cppython_vars,
                    extract_vars, model_vars, sync_vars, resolved_vars,
                    project_vars, tooling_vars, process_vars, alias_vars,
                    logger_vars, frame_vars, race_vars>>
not_tooling_vars == <<pep621_vars, identity_vars, cppython_vars,
                      extract_vars, model_vars, sync_vars, resolved_vars,
                      project_vars, group_vars, process_vars, alias_vars,
                      logger_vars, frame_vars, race_vars>>
not_process_vars == <<pep621_vars, identity_vars, cppython_vars,
                      extract_vars, model_vars, sync_vars, resolved_vars,
                      project_vars, group_vars, tooling_vars, alias_vars,
                      logger_vars, frame_vars, race_vars>>
not_alias_vars == <<pep621_vars, identity_vars, cppython_vars,
                    extract_vars, model_vars, sync_vars, resolved_vars,
                    project_vars, group_vars, tooling_vars, process_vars,
                    logger_vars, frame_vars, race_vars>>
not_logger_vars == <<pep621_vars, identity_vars, cppython_vars,
                     extract_vars, model_vars, sync_vars, resolved_vars,
                     project_vars, group_vars, tooling_vars, process_vars,
                     alias_vars, frame_vars, race_vars>>
not_frame_vars == <<pep621_vars, identity_vars, cppython_vars,
                    extract_vars, model_vars, sync_vars, resolved_vars,
                    project_vars, group_vars, tooling_vars, process_vars,
                    alias_vars, logger_vars, race_vars>>
not_race_vars == <<pep621_vars, identity_vars, cppython_vars, extract_vars,
                   model_vars, sync_vars, resolved_vars, project_vars,
                   group_vars, tooling_vars, process_vars, alias_vars,
                   logger_vars, frame_vars>>

(***************************************************************************)
(* Values                                                                  *)
(***************************************************************************)

\* Python's None, where a string is expected.
None == "<None>"

\* A keyword argument that the caller does not pass.
Omitted == "<omitted>"

\* pathlib.Path: an anchor ("/" for an absolute path, "" for a relative one)
\* and the sequence of name components.
Path(anchor, parts) == [anchor |-> anchor, parts |-> parts]

is_absolute(p) == p.anchor = "/"

\* Path.parent: the path without its last component; a path without
\* components is its own parent.
parent(p) ==
    IF p.parts = <<>> THEN p
    ELSE Path(p.anchor, SubSeq(p.parts, 1, Len(p.parts) - 1))

\* Path.__truediv__: joining an absolute right operand replaces the left one.
truediv(p, q) ==
    IF is_absolute(q) THEN q ELSE Path(p.anchor, p.parts \o q.parts)

\* The working directory of the process.
cwd == Path("/", <<"w">>)

\* Path.absolute(): a relative path is joined to the working directory.
absolute(p) == IF is_absolute(p) THEN p ELSE truediv(cwd, p)

(***************************************************************************)
(* PEP 621: construction                                                   *)
(***************************************************************************)

Versions == {"1.0.0", "2.0.0"}
DynamicLists == {<<>>, <<"version">>, <<"readme">>, <<"readme", "version">>}
ProjectNames == {"pep621-resolve-test"}
Descriptions == {Omitted, "A test document"}

Contains(seq, x) == \E i \in 1..Len(seq) : seq[i] = x

\* PEP621.validate_version: the assertion on the version against the dynamic
\* list.  TRUE when the assertion passes.
validate_version(value, values) ==
    IF Contains(values.dynamic, "version") THEN value = None ELSE value # None

\* Whether pydantic runs the validators of the field "version": a validator
\* declared without always=True is skipped when the field is not supplied
\* and takes its default.
version_validated(version_arg) == version_arg # Omitted

\* No object: the construction raised, or has not been made.
NoObject == [dynamic |-> <<>>, name |-> None, version |-> None, description |-> None]

\* PEP621(name=..., version=..., dynamic=..., description=...): the fields in
\* declaration order (dynamic, name, version, description), defaults for what
\* is not passed, and the version validator.
construct_PEP621(name, version_arg, dynamic, description_arg) ==
    LET version == IF version_arg = Omitted THEN None ELSE version_arg
        description == IF description_arg = Omitted THEN "" ELSE description_arg
        values == [dynamic |-> dynamic, name |-> name]
        object == [dynamic |-> dynamic, name |-> name, version |-> version,
                   description |-> description]
        arguments == [name |-> name, version |-> version_arg, dynamic |-> dynamic,
                      description |-> description_arg]
    IN  IF version_validated(version_arg) /\ ~validate_version(version, values)
        THEN [outcome |-> "ValidationError", arguments |-> arguments, object |-> NoObject]
        ELSE [outcome |-> "constructed", arguments |-> arguments, object |-> object]

NoConstruction ==
    [outcome |-> "none",
     arguments |-> [name |-> None, version |-> None, dynamic |-> <<>>,
                    description |-> None],
     object |-> NoObject]

ConstructPEP621 ==
    /\ \E name \in ProjectNames, version_arg \in Versions \cup {Omitted, None},
          dynamic \in DynamicLists, description_arg \in Descriptions :
          pep621_configuration' = construct_PEP621(name, version_arg, dynamic, description_arg)
    /\ UNCHANGED <<project_configuration, pep621_call>>
    /\ UNCHANGED not_pep621_vars

(***************************************************************************)
(* PEP 621: resolution                                                     *)
(***************************************************************************)

ManifestPaths ==
    {Path("/", <<"a", "b", "pyproject.toml">>), Path("", <<"pyproject.toml">>)}

\* ProjectConfiguration: the manifest and the externally supplied version,
\* which resolve_pep621 tests against None.
ProjectConfigurations ==
    [pyproject_file : ManifestPaths, version : {None, "0.1.0"}]

\* The scm argument of resolve_pep621: None, or a plugin whose version()
\* answers with the version it reads from the repository.
NoSCM == [present |-> FALSE, answer |-> None]
SCMs == {NoSCM, [present |-> TRUE, answer |-> "3.0.0"]}

NoError == [type |-> None, message |-> None]
NoData == [name |-> None, version |-> None, description |-> None]

Raised(type, message, scm_calls) ==
    [outcome |-> "raised", error |-> [type |-> type, message |-> message],
     value |-> NoData, scm_calls |-> scm_calls]

\* PEP621Data(name=..., version=..., description=...)
PEP621Data(name, version, description, scm_calls) ==
    [outcome |-> "returned", error |-> NoError,
     value |-> [name |-> name, version |-> version, description |-> description],
     scm_calls |-> scm_calls]

\* The exception raised when the version is dynamic and nothing supplies it.
NoSourceError(scm_calls) ==
    Raised("ValueError", "Version can't be resolved. No SCM", scm_calls)

\* A schema failure raised as the failure of a dynamic version is.
SchemaError_as_no_source(scm_calls) == NoSourceError(scm_calls)

\* The exception raised when the version is neither dynamic nor configured.
SchemaError(scm_calls) ==
    Raised("ValueError", "Version can't be resolved. Schema error", scm_calls)

\* SCM.version(directory): the version string the plugin reads for the
\* directory.
scm_version(scm, directory) == scm.answer

\* A resolve_pep621 that lets the external project version override a
\* configured literal version.
resolve_pep621_project_first(configuration, project, scm) ==
    IF project.version # None
    THEN PEP621Data(configuration.name, project.version,
                    configuration.description, <<>>)
    ELSE IF Contains(configuration.dynamic, "version")
    THEN IF scm.present
         THEN PEP621Data(configuration.name,
                         scm_version(scm, parent(project.pyproject_file)),
                         configuration.description,
                         <<parent(project.pyproject_file)>>)
         ELSE NoSourceError(<<>>)
    ELSE IF configuration.version # None
         THEN PEP621Data(configuration.name, configuration.version,
                         configuration.description, <<>>)
         ELSE SchemaError(<<>>)

\* A resolve_pep621 that asks the SCM plugin before it looks at the external
\* project version.
resolve_pep621_scm_first(configuration, project, scm) ==
    IF Contains(configuration.dynamic, "version")
    THEN IF scm.present
         THEN PEP621Data(configuration.name,
                         scm_version(scm, parent(project.pyproject_file)),
                         configuration.description,
                         <<parent(project.pyproject_file)>>)
         ELSE IF project.version # None
         THEN PEP621Data(configuration.name, project.version,
                         configuration.description, <<>>)
         ELSE NoSourceError(<<>>)
    ELSE IF configuration.version # None
         THEN PEP621Data(configuration.name, configuration.version,
                         configuration.description, <<>>)
         ELSE SchemaError(<<>>)

\* resolve_pep621(pep621_configuration, project_configuration, scm); beside
\* the outcome, the directories scm.version was called with.
resolve_pep621(configuration, project, scm) ==
    IF Contains(configuration.dynamic, "version")
    THEN IF project.version # None
         THEN PEP621Data(configuration.name, project.version,
                         configuration.description, <<>>)
         ELSE IF scm.present
         THEN PEP621Data(configuration.name,
                         scm_version(scm, parent(project.pyproject_file)),
                         configuration.description,
                         <<parent(project.pyproject_file)>>)
         ELSE NoSourceError(<<>>)
    ELSE IF configuration.version # None
         THEN PEP621Data(configuration.name, configuration.version,
                         configuration.description, <<>>)
         ELSE SchemaError(<<>>)

NoPEP621Call ==
    [called |-> FALSE, configuration |-> NoObject,
     project |-> [pyproject_file |-> Path("", <<>>), version |-> None],
     scm |-> NoSCM, result |-> Raised(None, None, <<>>)]

ResolvePEP621 ==
    /\ pep621_configuration.outcome = "constructed"
    /\ \E scm \in SCMs :
          pep621_call' =
              [called |-> TRUE, configuration |-> pep621_configuration.object,
               project |-> project_configuration, scm |-> scm,
               result |-> resolve_pep621(pep621_configuration.object,
                                         project_configuration, scm)]
    /\ UNCHANGED <<pep621_configuration, project_configuration>>
    /\ UNCHANGED not_pep621_vars

(***************************************************************************)
(* Plugin identity                                                         *)
(***************************************************************************)

\* Longest type name drawn.
MaxNameLen == 4

\* A type name is a sequence of letters; two letters of each case suffice to
\* tell a letter from its lowercase form and a run from a repeated letter.
UpperCase == {"A", "B"}
LowerCase == {"a", "b"}
Letters == UpperCase \cup LowerCase
TypeNames == UNION {[1..n -> Letters] : n \in 1..MaxNameLen}

\* str.lower() on one letter.
lower(c) == CASE c = "A" -> "a" [] c = "B" -> "b" [] OTHER -> c

lower_word(w) == [i \in 1..Len(w) |-> lower(w[i])]

\* A boundary rule that knows no acronyms: only lowercase followed by
\* uppercase.
boundary_lower_upper(name, i) ==
    /\ i > 1
    /\ name[i] \in UpperCase
    /\ name[i - 1] \in LowerCase

\* A case-transition boundary before position i: an uppercase letter that
\* follows a lowercase letter, or that ends a run of uppercase letters by
\* starting a mixed-case word.
boundary(name, i) ==
    /\ i > 1
    /\ name[i] \in UpperCase
    /\ \/ name[i - 1] \in LowerCase
       \/ i < Len(name) /\ name[i + 1] \in LowerCase

RECURSIVE scan(_, _, _, _)
scan(name, i, word, words) ==
    IF i > Len(name)
    THEN IF word = <<>> THEN words ELSE Append(words, word)
    ELSE IF boundary(name, i)
    THEN scan(name, i + 1, <<name[i]>>, Append(words, word))
    ELSE scan(name, i + 1, Append(word, name[i]), words)

\* The tokens of a type name: its words between the boundaries, lowercased.
split_name(name) ==
    LET words == scan(name, 1, <<>>, <<>>)
    IN  [k \in 1..Len(words) |-> lower_word(words[k])]

NameGroupError ==
    [outcome |-> "raised",
     error |-> [type |-> "PluginError", message |-> "NameGroup format required"],
     value |-> <<>>]

Name(value) == [outcome |-> "returned", error |-> NoError, value |-> value]

\* A check that lets more than two tokens through.
valid_split_at_least_two(tokens) == Len(tokens) >= 2

\* The number of tokens a type name must split into.
valid_split(tokens) == Len(tokens) = 2

\* resolve_full_name: "<name>.<group>"
resolve_full_name(name) ==
    LET tokens == split_name(name)
    IN  IF valid_split(tokens)
        THEN Name(tokens[1] \o <<".">> \o tokens[2])
        ELSE NameGroupError

\* resolve_name: the first token
resolve_name(name) ==
    LET tokens == split_name(name)
    IN  IF valid_split(tokens) THEN Name(tokens[1]) ELSE NameGroupError

\* resolve_group: the second token
resolve_group(name) ==
    LET tokens == split_name(name)
    IN  IF valid_split(tokens) THEN Name(tokens[2]) ELSE NameGroupError

NotCalled == [outcome |-> "none", error |-> NoError, value |-> <<>>]

NoIdentityCall == [full_name |-> NotCalled, name |-> NotCalled, group |-> NotCalled]

\* Each of the three resolutions is applied to the plugin type; identity_call
\* keeps the outcome of each.
ResolveFullName ==
    /\ identity_call' = [identity_call EXCEPT !.full_name = resolve_full_name(type_name)]
    /\ UNCHANGED type_name
    /\ UNCHANGED not_identity_vars

ResolveName ==
    /\ identity_call' = [identity_call EXCEPT !.name = resolve_name(type_name)]
    /\ UNCHANGED type_name
    /\ UNCHANGED not_identity_vars

ResolveGroup ==
    /\ identity_call' = [identity_call EXCEPT !.group = resolve_group(type_name)]
    /\ UNCHANGED type_name
    /\ UNCHANGED not_identity_vars

(***************************************************************************)
(* The file system                                                         *)
(***************************************************************************)

\* Directories and regular files, each named by the components of its
\* absolute path; the root directory is <<>>.
FileSystem(dirs, files) == [dirs |-> dirs, files |-> files]

BaseDirs == {<<>>, <<"a">>, <<"a", "b">>, <<"w">>, <<"h">>}
ManifestFiles == {<<"a", "b", "pyproject.toml">>, <<"w", "pyproject.toml">>}

\* The file systems a resolution may start from: the manifests in their
\* directories; the same with a regular file where a relative install path
\* "out" lands; the same with "out" materialized and a regular file in it
\* under a plugin's name.
InitialFileSystems ==
    {FileSystem(BaseDirs, ManifestFiles),
     FileSystem(BaseDirs, ManifestFiles \cup {<<"a", "b", "out">>}),
     FileSystem(BaseDirs \cup {<<"w", "out">>}, ManifestFiles \cup {<<"w", "out", "foo">>})}

is_dir(fsys, p) == absolute(p).parts \in fsys.dirs

MkdirOK(fsys) == [ok |-> TRUE, error |-> None, fs |-> fsys]
MkdirError(type, fsys) == [ok |-> FALSE, error |-> type, fs |-> fsys]

\* Path.mkdir(parents=True) without exist_ok: an existing directory is an
\* error.
RECURSIVE mkdir_parts_exist_not_ok(_, _)
mkdir_parts_exist_not_ok(fsys, parts) ==
    IF parts \in fsys.dirs \/ parts \in fsys.files
    THEN MkdirError("FileExistsError", fsys)
    ELSE LET up == SubSeq(parts, 1, Len(parts) - 1)
         IN  IF up \in fsys.dirs
             THEN MkdirOK(FileSystem(fsys.dirs \cup {parts}, fsys.files))
             ELSE IF up \in fsys.files
             THEN MkdirError("NotADirectoryError", fsys)
             ELSE LET made == mkdir_parts_exist_not_ok(fsys, up)
                  IN  IF made.ok
                      THEN MkdirOK(FileSystem(made.fs.dirs \cup {parts}, made.fs.files))
                      ELSE made

\* Path.mkdir(parents=True, exist_ok=True) on the components of an absolute
\* path: an existing directory is left alone, an existing regular file is an
\* error, missing parents are created first, and a regular file in the place
\* of a parent is an error.
RECURSIVE mkdir_parts(_, _)
mkdir_parts(fsys, parts) ==
    IF parts \in fsys.dirs THEN MkdirOK(fsys)
    ELSE IF parts \in fsys.files THEN MkdirError("FileExistsError", fsys)
    ELSE LET up == SubSeq(parts, 1, Len(parts) - 1)
         IN  IF up \in fsys.dirs
             THEN MkdirOK(FileSystem(fsys.dirs \cup {parts}, fsys.files))
             ELSE IF up \in fsys.files
             THEN MkdirError("NotADirectoryError", fsys)
             ELSE LET made == mkdir_parts(fsys, up)
                  IN  IF made.ok
                      THEN MkdirOK(FileSystem(made.fs.dirs \cup {parts}, made.fs.files))
                      ELSE made

mkdir(fsys, p) == mkdir_parts(fsys, absolute(p).parts)

(***************************************************************************)
(* Tool configuration: resolve_cppython                                    *)
(***************************************************************************)

\* Calls of resolve_cppython with fresh arguments in one behaviour.
MaxResolves == 1

\* _default_install_location(): Path.home() / ".cppython"
default_install_location == Path("/", <<"h", ".cppython">>)

InstallPaths == {Path("", <<"out">>), default_install_location}
ToolPaths == {Path("", <<"tool">>)}
BuildPaths == {Path("", <<"build">>), Path("", <<"out", "build">>)}

\* The dependency lists a user writes: none, and one requirement.
Dependencies == {<<>>, <<"fmt>=1.0">>}

\* CPPythonLocalConfiguration, as far as resolve_cppython reads it, with the
\* dependency list of the user's table: every combination of paths, and at
\* one combination of paths every combination of names and dependencies.
LocalConfigurations ==
    [install_path : InstallPaths, tool_path : ToolPaths, build_path : BuildPaths,
     provider_name : {None, "vcpkg"}, generator_name : {None},
     dependencies : {<<>>}]
    \cup
    [install_path : {Path("", <<"out">>)}, tool_path : ToolPaths,
     build_path : {Path("", <<"build">>)},
     provider_name : {None, "vcpkg"}, generator_name : {None, "ninja"},
     dependencies : Dependencies]

\* CPPythonGlobalConfiguration
GlobalConfigurations == [current_check : BOOLEAN]

\* ProjectData
ProjectDatas == [pyproject_file : ManifestPaths]

\* PluginCPPythonData
PluginCPPythonDatas ==
    {[generator_name |-> "cmake", provider_name |-> "conan", scm_name |-> "git"]}

NoPath == Path("", <<>>)

NoCPPythonData ==
    [install_path |-> NoPath, tool_path |-> NoPath, build_path |-> NoPath,
     current_check |-> FALSE, provider_name |-> None, generator_name |-> None,
     scm_name |-> None, dependencies |-> <<>>]

CPPythonRaised(type, fsys) ==
    [outcome |-> "raised", error |-> type, value |-> NoCPPythonData, fs |-> fsys]

\* CPPythonDataResolved.validate_absolute_path with the DirectoryPath type of
\* the three path fields: the path is an existing directory and absolute.
validate_absolute_path(fsys, value) == is_dir(fsys, value) /\ is_absolute(value)

\* CPPythonData(install_path=..., ...): the resolved model, validated.
CPPythonData(data, fsys) ==
    IF /\ validate_absolute_path(fsys, data.install_path)
       /\ validate_absolute_path(fsys, data.tool_path)
       /\ validate_absolute_path(fsys, data.build_path)
    THEN [outcome |-> "returned", error |-> None, value |-> data, fs |-> fsys]
    ELSE CPPythonRaised("ValidationError", fsys)

\* A relative path made absolute against the working directory instead of
\* the manifest's directory.
add_base_path_cwd(root_directory, path) == absolute(path)

\* "Add the base path to all relative paths"
add_base_path(root_directory, path) ==
    IF ~is_absolute(path) THEN truediv(root_directory, path) ELSE path

\* The name of the plugin build data, whatever the user gave.
modified_name_build(local_name, build_name) == build_name

\* The name the user gave, else the one of the plugin build data.
modified_name(local_name, build_name) ==
    IF local_name = None THEN build_name ELSE local_name

\* dependencies: list[PEP508] = Field(default=[])
default_dependencies == <<>>

\* resolve_cppython(local_configuration, global_configuration, project_data,
\* plugin_build_data), run on the file system fsys. The model is constructed
\* from the three paths, the current-check flag and the three names; a field
\* that is not passed holds its default.
resolve_cppython(local, global, project_data, plugin_build_data, fsys) ==
    LET root_directory == absolute(parent(project_data.pyproject_file))
        modified_install_path == add_base_path(root_directory, local.install_path)
        modified_tool_path == add_base_path(root_directory, local.tool_path)
        modified_build_path == add_base_path(root_directory, local.build_path)
        made_install == mkdir(fsys, modified_install_path)
        made_tool == mkdir(made_install.fs, modified_tool_path)
        made_build == mkdir(made_tool.fs, modified_build_path)
    IN  IF ~made_install.ok THEN CPPythonRaised(made_install.error, made_install.fs)
        ELSE IF ~made_tool.ok THEN CPPythonRaised(made_tool.error, made_tool.fs)
        ELSE IF ~made_build.ok THEN CPPythonRaised(made_build.error, made_build.fs)
        ELSE CPPythonData(
                 [install_path |-> modified_install_path,
                  tool_path |-> modified_tool_path,
                  build_path |-> modified_build_path,
                  current_check |-> global.current_check,
                  provider_name |-> modified_name(local.provider_name,
                                                  plugin_build_data.provider_name),
                  generator_name |-> modified_name(local.generator_name,
                                                   plugin_build_data.generator_name),
                  scm_name |-> plugin_build_data.scm_name,
                  dependencies |-> default_dependencies],
                 made_build.fs)

NoArguments ==
    [local |-> [install_path |-> NoPath, tool_path |-> NoPath, build_path |-> NoPath,
                provider_name |-> None, generator_name |-> None,
                dependencies |-> <<>>],
     global |-> [current_check |-> FALSE],
     project_data |-> [pyproject_file |-> NoPath],
     plugin_build_data |-> [generator_name |-> None, provider_name |-> None,
                            scm_name |-> None]]

NoFileSystem == FileSystem({}, {})

NoCPPythonCall ==
    [called |-> FALSE, arguments |-> NoArguments, fs_before |-> NoFileSystem,
     result |-> CPPythonRaised(None, NoFileSystem)]

(***************************************************************************)
(* Tool configuration per plugin: resolve_cppython_plugin                  *)
(***************************************************************************)

\* Plugin types by what Plugin.name() and Plugin.group() return.
PluginTypes ==
    {[name |-> "foo", group |-> "provider"],
     [name |-> "foo", group |-> "generator"],
     [name |-> "bar", group |-> "generator"]}

\* A scoping by the plugin's group instead of its name.
plugin_install_path_group(install_path, plugin_type) ==
    truediv(install_path, Path("", <<plugin_type.group>>))

\* No scoping: every plugin keeps the shared install path.
plugin_install_path_unscoped(install_path, plugin_type) == install_path

\* "Add plugin specific paths to the base path"
plugin_install_path(install_path, plugin_type) ==
    truediv(install_path, Path("", <<plugin_type.name>>))

\* resolve_cppython_plugin(cppython_data, plugin_type), run on fsys.
resolve_cppython_plugin(cppython_data, plugin_type, fsys) ==
    LET modified_install_path ==
            plugin_install_path(cppython_data.install_path, plugin_type)
        made == mkdir(fsys, modified_install_path)
    IN  IF ~made.ok THEN CPPythonRaised(made.error, made.fs)
        ELSE CPPythonData(
                 [install_path |-> modified_install_path,
                  tool_path |-> cppython_data.tool_path,
                  build_path |-> cppython_data.build_path,
                  current_check |-> cppython_data.current_check,
                  provider_name |-> cppython_data.provider_name,
                  generator_name |-> cppython_data.generator_name,
                  scm_name |-> cppython_data.scm_name,
                  dependencies |-> default_dependencies],
                 made.fs)

NoPluginCall ==
    [called |-> FALSE, cppython_data |-> NoCPPythonData,
     result |-> CPPythonRaised(None, NoFileSystem)]

\* resolve_cppython is called with fresh arguments; what was scoped from the
\* previous resolved configuration is dropped.
CallResolveCPPython ==
    /\ resolves < MaxResolves
    /\ \E local \in LocalConfigurations, global \in GlobalConfigurations,
          project_data \in ProjectDatas, plugin_build_data \in PluginCPPythonDatas :
          LET result == resolve_cppython(local, global, project_data,
                                         plugin_build_data, fs)
          IN  /\ cppython_call' =
                     [called |-> TRUE,
                      arguments |-> [local |-> local, global |-> global,
                                     project_data |-> project_data,
                                     plugin_build_data |-> plugin_build_data],
                      fs_before |-> fs, result |-> result]
              /\ fs' = result.fs
    /\ resolves' = resolves + 1
    /\ cppython_recall' = NoCPPythonCall
    /\ plugin_calls' = [p \in PluginTypes |-> NoPluginCall]
    /\ UNCHANGED not_cppython_vars

\* resolve_cppython is called again with the arguments of the last call.
RecallResolveCPPython ==
    /\ cppython_call.called
    /\ LET arguments == cppython_call.arguments
           result == resolve_cppython(arguments.local, arguments.global,
                                      arguments.project_data,
                                      arguments.plugin_build_data, fs)
       IN  /\ cppython_recall' = [called |-> TRUE, arguments |-> arguments,
                                  fs_before |-> fs, result |-> result]
           /\ fs' = result.fs
    /\ UNCHANGED <<cppython_call, plugin_calls, resolves>>
    /\ UNCHANGED not_cppython_vars

\* resolve_cppython_plugin is called for a plugin type on the resolved
\* configuration.
CallResolveCPPythonPlugin ==
    /\ cppython_call.called
    /\ cppython_call.result.outcome = "returned"
    /\ \E plugin_type \in PluginTypes :
          LET result == resolve_cppython_plugin(cppython_call.result.value,
                                                plugin_type, fs)
          IN  /\ plugin_calls' =
                     [plugin_calls EXCEPT ![plugin_type] =
                          [called |-> TRUE,
                           cppython_data |-> cppython_call.result.value,
                           result |-> result]]
              /\ fs' = result.fs
    /\ UNCHANGED <<cppython_call, cppython_recall, resolves>>
    /\ UNCHANGED not_cppython_vars

(***************************************************************************)
(* Plugin tables: extract_provider_data, extract_generator_data            *)
(***************************************************************************)

\* The canonical names plugins are configured under.
PluginNames == {"foo", "bar"}

\* A plugin's sub-table: free-form keys with their values, as the set of its
\* (key, value) pairs.  The empty sub-table is a sub-table.
SubTables == {{}, {<<"heck", "yeah">>}}

\* An entry of a group's table: the sub-table stored under a name, or no
\* entry for the name.
NoEntry == [present |-> FALSE, table |-> {}]
Entries == {NoEntry} \cup {[present |-> TRUE, table |-> t] : t \in SubTables}

\* CPPythonLocalConfiguration.provider and .generator: one table per plugin
\* group, keyed by plugin name.
LocalTables == [provider : [PluginNames -> Entries], generator : [PluginNames -> Entries]]

NoTable == {}

Extracted(table) == [outcome |-> "returned", error |-> None, value |-> table]
ExtractRaised(type) == [outcome |-> "raised", error |-> type, value |-> NoTable]

\* A lookup that answers a missing name with an empty sub-table
\* (dict.get(name, {})).
extract_plugin_data_get(local, plugin_type) ==
    LET entry == local[plugin_type.group][plugin_type.name]
    IN  IF entry.present THEN Extracted(entry.table) ELSE Extracted({})

\* extract_provider_data / extract_generator_data: the sub-table under the
\* plugin's name in the table of the plugin's group; a KeyError when the
\* table has no entry for the name.
extract_plugin_data(local, plugin_type) ==
    LET entry == local[plugin_type.group][plugin_type.name]
    IN  IF entry.present THEN Extracted(entry.table) ELSE ExtractRaised("KeyError")

NoExtraction ==
    [called |-> FALSE, plugin_type |-> [name |-> None, group |-> None],
     result |-> ExtractRaised(None)]

\* The host extracts the configuration of a provider or generator plugin.
ExtractPluginData ==
    /\ \E plugin_type \in PluginTypes :
          extraction' = [called |-> TRUE, plugin_type |-> plugin_type,
                         result |-> extract_plugin_data(local_tables, plugin_type)]
    /\ UNCHANGED local_tables
    /\ UNCHANGED not_extract_vars

(***************************************************************************)
(* Validation of a payload: resolve_model                                  *)
(***************************************************************************)

\* The values a payload holds under a key, by their Python type; Absent
\* stands for a key the payload does not have.
Absent == [kind |-> "absent", text |-> ""]
PayloadValues ==
    {Absent, [kind |-> "str", text |-> "good"], [kind |-> "int", text |-> "4"],
     [kind |-> "NoneType", text |-> "None"]}

PayloadKeys == {"field", "count", "other"}
Payloads == [PayloadKeys -> PayloadValues]

\* Target models: the type of each field; every field is required.
\* MockModel is the model of the test, "field: str = Field()".
MockModel == [field |-> "str"]
PairModel == [field |-> "str", count |-> "int"]
TargetModels == {MockModel, PairModel}

\* One field's validation: a required field must be there, with a value of
\* the field's type.
field_violation(model, data, f) == data[f].kind # model[f]

\* ValidationError.errors(): one entry per field that fails; a key that is
\* no field of the model is ignored.
violations(model, data) == {f \in DOMAIN model : field_violation(model, data, f)}

NoModel == [f \in PayloadKeys |-> Absent]

\* The validated model: the model's fields with the payload's values.
validated(model, data) ==
    [f \in PayloadKeys |-> IF f \in DOMAIN model THEN data[f] ELSE Absent]

ModelReturned(value) ==
    [outcome |-> "returned", error |-> None, error_count |-> 0, value |-> value]
ModelRaised(type, error_count) ==
    [outcome |-> "raised", error |-> type, error_count |-> error_count,
     value |-> NoModel]

\* A resolve_model that reports the first violation only.
resolve_model_first_error(model, data) ==
    IF violations(model, data) = {}
    THEN ModelReturned(validated(model, data))
    ELSE ModelRaised("ConfigException", 1)

\* resolve_model(model, data): the validated model, or one ConfigException
\* that carries an error for every violation.
resolve_model(model, data) ==
    IF violations(model, data) = {}
    THEN ModelReturned(validated(model, data))
    ELSE ModelRaised("ConfigException", Cardinality(violations(model, data)))

NoModelCall ==
    [called |-> FALSE, model |-> "", data |-> NoModel, result |-> ModelRaised(None, 0)]

ModelName(model) == IF model = MockModel THEN "MockModel" ELSE "PairModel"
ModelNamed(name) == IF name = "MockModel" THEN MockModel ELSE PairModel

\* The host validates a payload against a target model.
ResolveModel ==
    /\ \E model \in TargetModels, data \in Payloads :
          model_call' = [called |-> TRUE, model |-> ModelName(model), data |-> data,
                         result |-> resolve_model(model, data)]
    /\ UNCHANGED not_model_vars

IdleModel == model_call = NoModelCall

(***************************************************************************)
(* Sync negotiation: SyncProducer                                          *)
(***************************************************************************)

\* The typed requests a generator may make.
SyncTypes == {"CMakeSyncData", "NinjaSyncData", "GraphSyncData"}

\* A producer, by the set of sync types it can satisfy.
Producers == SUBSET SyncTypes

NoSyncData == [name |-> None, type |-> None]

\* SyncData: a named payload with its type attached.
SyncData(type) == [name |-> "provider", type |-> type]

SyncReturned(value) == [outcome |-> "returned", error |-> None, value |-> value]
SyncRaised(type) == [outcome |-> "raised", error |-> type, value |-> NoSyncData]
NoSyncCall == [outcome |-> "none", error |-> None, value |-> NoSyncData]

\* SyncProducer.supported_sync_type(sync_type) -> bool
supported_sync_type(supported, sync_type) == sync_type \in supported

\* A producer that refuses a request it cannot satisfy with an error.
sync_data_raises(supported, sync_type) ==
    IF supported_sync_type(supported, sync_type)
    THEN SyncReturned(SyncData(sync_type))
    ELSE SyncRaised("NotSupportedError")

\* SyncProducer.sync_data(sync_type) -> SyncData | None: the payload of the
\* requested type, None for a type the producer does not support.
sync_data(supported, sync_type) ==
    IF supported_sync_type(supported, sync_type)
    THEN SyncReturned(SyncData(sync_type))
    ELSE SyncReturned(NoSyncData)

NoSyncCalls ==
    [t \in SyncTypes |-> [probed |-> FALSE, probe |-> FALSE, probed_first |-> FALSE,
                          fetch |-> NoSyncCall]]

\* The generator probes the producer for a sync type.
ProbeSync ==
    /\ \E t \in SyncTypes :
          sync_calls' =
              [sync_calls EXCEPT ![t].probed = TRUE,
                                 ![t].probe = supported_sync_type(producer, t)]
    /\ UNCHANGED producer
    /\ UNCHANGED not_sync_vars

\* The generator fetches the data of a sync type, probed before or not.
FetchSync ==
    /\ \E t \in SyncTypes :
          sync_calls' =
              [sync_calls EXCEPT ![t].fetch = sync_data(producer, t),
                                 ![t].probed_first = sync_calls[t].probed]
    /\ UNCHANGED producer
    /\ UNCHANGED not_sync_vars

IdleSync ==
    /\ producer = {}
    /\ sync_calls = NoSyncCalls

(***************************************************************************)
(* Resolved-form models: construction and assignment                       *)
(***************************************************************************)

\* A keyword argument or field value: a path, or a text of some Python type;
\* Unset stands for an argument that is not passed and for a name that is
\* no field of the class.
PathValue(p) == [kind |-> "path", path |-> p, text |-> ""]
TextValue(kind, text) == [kind |-> kind, path |-> NoPath, text |-> text]
Unset == TextValue("unset", "")

\* The resolved-form classes with their field types.
\* CPPythonDataResolved(CPPythonModel, extra=Extra.forbid)
\* PEP621Resolved(CPPythonModel)
ResolvedClasses == {"CPPythonDataResolved", "PEP621Resolved"}

FieldTypes(class) ==
    IF class = "CPPythonDataResolved"
    THEN [target |-> "TargetEnum", dependencies |-> "list[PEP508]",
          install_path |-> "DirectoryPath", tool_path |-> "DirectoryPath",
          build_path |-> "DirectoryPath"]
    ELSE [name |-> "str", version |-> "str", description |-> "str"]

\* Config.extra of the class: pydantic's default is Extra.ignore.
extra(class) == IF class = "CPPythonDataResolved" THEN "forbid" ELSE "ignore"

\* CPPythonModel.Config.validate_assignment
validate_assignment == TRUE

\* TargetEnum
TargetEnum == {"executable", "static", "shared"}

\* The requirement strings that packaging's Requirement parses.
Requirements == {"fmt>=1.0"}

\* The names an object is read and written under: the fields of the two
\* classes and a name that is a field of neither.
AttributeNames ==
    {"target", "dependencies", "install_path", "tool_path", "build_path",
     "name", "version", "description", "unknown"}

\* The file system the resolved-form objects are made on: the directories a
\* resolution has created, and a directory in the working directory.
ResolvedFileSystem ==
    FileSystem(BaseDirs \cup {<<"a", "b", "out">>, <<"a", "b", "tool">>,
                              <<"a", "b", "build">>, <<"w", "out">>},
               ManifestFiles)

\* The values tried as arguments and in assignments: existing absolute
\* directories, an existing relative one, a missing one; a target and a
\* string that is none; a dependency list; None.
ArgumentValues ==
    {PathValue(Path("/", <<"a", "b", "out">>)), PathValue(Path("/", <<"a", "b", "tool">>)),
     PathValue(Path("", <<"out">>)), PathValue(Path("/", <<"a", "b", "missing">>)),
     TextValue("str", "static"), TextValue("str", "bogus"),
     TextValue("list", "fmt>=1.0"), TextValue("NoneType", "None")}

\* The number of assignments followed on one object.
MaxAssignments == 1

\* The validation of one field: the field's type, and for the three paths
\* validate_absolute_path.
valid_value(fsys, type, value) ==
    CASE type = "DirectoryPath" ->
             value.kind = "path" /\ validate_absolute_path(fsys, value.path)
      [] type = "TargetEnum" -> value.kind = "str" /\ value.text \in TargetEnum
      [] type = "list[PEP508]" ->
             value.kind = "list" /\ value.text \in Requirements \cup {""}
      [] OTHER -> value.kind = "str"

NoObjectFields == [a \in AttributeNames |-> Unset]

\* BaseModel.__init__(**kwargs): every field is required and validated; a
\* keyword that is no field is an error under Extra.forbid and dropped
\* under Extra.ignore.
construct_model(class, kwargs, fsys) ==
    LET types == FieldTypes(class)
        errors == {f \in DOMAIN types :
                      kwargs[f] = Unset \/ ~valid_value(fsys, types[f], kwargs[f])}
        extras == {a \in AttributeNames \ DOMAIN types : kwargs[a] # Unset}
    IN  IF errors # {} \/ (extra(class) = "forbid" /\ extras # {})
        THEN [class |-> class, outcome |-> "ValidationError", kwargs |-> kwargs,
              fields |-> NoObjectFields]
        ELSE [class |-> class, outcome |-> "constructed", kwargs |-> kwargs,
              fields |-> [a \in AttributeNames |->
                             IF a \in DOMAIN types THEN kwargs[a] ELSE Unset]]

SetReturned(fields) == [outcome |-> "returned", error |-> None, fields |-> fields]
SetRaised(type, fields) == [outcome |-> "raised", error |-> type, fields |-> fields]

\* An assignment that stores the value without validating it
\* (validate_assignment = False).
setattr_model_unvalidated(class, fields, name, value, fsys) ==
    IF extra(class) # "allow" /\ name \notin DOMAIN FieldTypes(class)
    THEN SetRaised("ValueError", fields)
    ELSE SetReturned([fields EXCEPT ![name] = value])

\* BaseModel.__setattr__(name, value): a name that is no field is refused;
\* no class sets allow_mutation = False or frozen; with validate_assignment
\* the value is validated as the field's, and stored when it is valid.
setattr_model(class, fields, name, value, fsys) ==
    IF extra(class) # "allow" /\ name \notin DOMAIN FieldTypes(class)
    THEN SetRaised("ValueError", fields)
    ELSE IF validate_assignment /\ ~valid_value(fsys, FieldTypes(class)[name], value)
    THEN SetRaised("ValidationError", fields)
    ELSE SetReturned([fields EXCEPT ![name] = value])

\* The keyword arguments resolution code passes: every field with a valid
\* value.
DefaultArguments(class) ==
    IF class = "CPPythonDataResolved"
    THEN [NoObjectFields EXCEPT
              !["target"] = TextValue("str", "executable"),
              !["dependencies"] = TextValue("list", ""),
              !["install_path"] = PathValue(Path("/", <<"a", "b", "out">>)),
              !["tool_path"] = PathValue(Path("/", <<"a", "b", "tool">>)),
              !["build_path"] = PathValue(Path("/", <<"a", "b", "build">>))]
    ELSE [NoObjectFields EXCEPT
              !["name"] = TextValue("str", "test"),
              !["version"] = TextValue("str", "1.0.0"),
              !["description"] = TextValue("str", "")]

NoResolvedModel ==
    [class |-> "", outcome |-> "none", kwargs |-> NoObjectFields,
     fields |-> NoObjectFields]

NoAssignment ==
    [called |-> FALSE, number |-> 0, name |-> "", value |-> Unset, before |-> NoObjectFields,
     result |-> SetRaised(None, NoObjectFields)]

\* A resolved-form object is constructed from the default arguments with one
\* argument replaced or left out; a failed construction can be tried again.
ConstructResolved ==
    /\ resolved_model.outcome # "constructed"
    /\ \E class \in ResolvedClasses, a \in AttributeNames,
          value \in ArgumentValues \cup {Unset} :
          resolved_model' =
              construct_model(class, [DefaultArguments(class) EXCEPT ![a] = value], fs)
    /\ assignment' = NoAssignment
    /\ UNCHANGED not_resolved_vars

\* A value is assigned to an attribute of the constructed object.
AssignResolved ==
    /\ resolved_model.outcome = "constructed"
    /\ assignment.number < MaxAssignments
    /\ \E name \in AttributeNames, value \in ArgumentValues :
          LET result == setattr_model(resolved_model.class, resolved_model.fields,
                                      name, value, fs)
          IN  /\ assignment' = [called |-> TRUE, number |-> assignment.number + 1,
                                name |-> name, value |-> value,
                                before |-> resolved_model.fields, result |-> result]
              /\ resolved_model' = [resolved_model EXCEPT !.fields = result.fields]
    /\ UNCHANGED not_resolved_vars

IdleResolved ==
    /\ resolved_model = NoResolvedModel
    /\ assignment = NoAssignment

(***************************************************************************)
(* Project configuration: ProjectConfiguration, resolve_project_configuration *)
(***************************************************************************)

\* The verbosities given lie in -MaxVerbosity..MaxVerbosity.
MaxVerbosity == 5

Verbosities == -MaxVerbosity..MaxVerbosity

\* The verbosity argument: given with an integer, or left out.
VerbosityArguments ==
    {[given |-> TRUE, value |-> v] : v \in Verbosities}
        \cup {[given |-> FALSE, value |-> 0]}

\* The files given as pyproject_file: two manifests, a file of another name,
\* and a path where no file is.
ProjectFiles ==
    ManifestPaths \cup {Path("/", <<"a", "b", "setup.py">>),
                        Path("/", <<"a", "pyproject.toml">>)}

\* The file system project configurations are made on.
ProjectFileSystem ==
    FileSystem(BaseDirs, ManifestFiles \cup {<<"a", "b", "setup.py">>})

\* Path.is_file(), as pydantic's FilePath tests it.
is_file(fsys, p) == absolute(p).parts \in fsys.files

\* Path.name: the final component.
path_name(p) == IF p.parts = <<>> THEN "" ELSE p.parts[Len(p.parts)]

min(a, b) == IF a < b THEN a ELSE b
max(a, b) == IF a > b THEN a ELSE b

\* A clamp from above only.
min_max_upper(value) == min(value, 2)

\* ProjectConfiguration.min_max
min_max(value) == min(max(value, 0), 2)

\* ProjectConfiguration.pyproject_name
pyproject_name(value) == path_name(value) = "pyproject.toml"

\* verbosity: int = Field(default=0, ...)
default_verbosity == 0

NoProjectConfiguration == [pyproject_file |-> NoPath, version |-> None, verbosity |-> 0]

\* ProjectConfiguration(pyproject_file=..., version=..., verbosity=...): the
\* file must exist and be named pyproject.toml, the version is required, a
\* given verbosity goes through min_max and an omitted one is the default.
construct_ProjectConfiguration(pyproject_file, version_arg, verbosity_arg, fsys) ==
    IF \/ ~is_file(fsys, pyproject_file)
       \/ ~pyproject_name(pyproject_file)
       \/ version_arg = Omitted
    THEN [outcome |-> "ValidationError", object |-> NoProjectConfiguration]
    ELSE [outcome |-> "constructed",
          object |-> [pyproject_file |-> pyproject_file, version |-> version_arg,
                      verbosity |-> IF verbosity_arg.given
                                    THEN min_max(verbosity_arg.value)
                                    ELSE default_verbosity]]

NoProjectData == [pyproject_file |-> NoPath, verbosity |-> 0]

\* resolve_project_configuration(project_configuration)
resolve_project_configuration(configuration) ==
    [pyproject_file |-> configuration.pyproject_file,
     verbosity |-> configuration.verbosity]

NoProjectConstruction ==
    [called |-> FALSE,
     arguments |-> [pyproject_file |-> NoPath, version |-> None,
                    verbosity |-> [given |-> FALSE, value |-> 0]],
     outcome |-> "none", object |-> NoProjectConfiguration]

NoProjectResolution ==
    [called |-> FALSE, configuration |-> NoProjectConfiguration,
     value |-> NoProjectData]

\* A ProjectConfiguration is constructed.
ConstructProjectConfiguration ==
    /\ \E pyproject_file \in ProjectFiles, version_arg \in {Omitted, "0.1.0"},
          verbosity_arg \in VerbosityArguments :
          LET made == construct_ProjectConfiguration(pyproject_file, version_arg,
                                                     verbosity_arg, fs)
          IN  project_construction' =
                  [called |-> TRUE,
                   arguments |-> [pyproject_file |-> pyproject_file,
                                  version |-> version_arg,
                                  verbosity |-> verbosity_arg],
                   outcome |-> made.outcome, object |-> made.object]
    /\ project_resolution' = NoProjectResolution
    /\ UNCHANGED not_project_vars

\* resolve_project_configuration is called on the constructed configuration.
ResolveProjectConfiguration ==
    /\ project_construction.outcome = "constructed"
    /\ project_resolution' =
           [called |-> TRUE, configuration |-> project_construction.object,
            value |-> resolve_project_configuration(project_construction.object)]
    /\ UNCHANGED project_construction
    /\ UNCHANGED not_project_vars

IdleProject ==
    /\ project_construction = NoProjectConstruction
    /\ project_resolution = NoProjectResolution

(***************************************************************************)
(* Group data: resolve_generator, resolve_provider, resolve_scm            *)
(***************************************************************************)

GroupKinds == {"generator", "provider", "scm"}

\* What a group resolution leaves alone besides the tool configuration's
\* records: it writes the file system and its own record.
not_group_fs_vars ==
    <<pep621_vars, identity_vars, extract_vars, model_vars, sync_vars,
      resolved_vars, project_vars, tooling_vars, process_vars, alias_vars,
      logger_vars, frame_vars, race_vars>>

\* The project data and the plugin-scoped tool configuration that
\* resolve_cppython and then resolve_cppython_plugin make of the inputs, with
\* the file system they leave.
core_plugin_data(local, global, project_data, plugin_build_data, plugin_type, fsys) ==
    LET resolved == resolve_cppython(local, global, project_data, plugin_build_data, fsys)
        scoped == IF resolved.outcome = "returned"
                  THEN resolve_cppython_plugin(resolved.value, plugin_type, resolved.fs)
                  ELSE resolved
    IN  [resolved |-> scoped.outcome = "returned", project_data |-> project_data,
         cppython_data |-> scoped.value, fs |-> scoped.fs]

\* CorePluginData, as far as the three functions read it: every one that the
\* two resolutions return.
CorePluginDatas ==
    {c \in {core_plugin_data(x[1], x[2], x[3], x[4], x[5], x[6]) :
               x \in LocalConfigurations \X GlobalConfigurations \X ProjectDatas
                     \X PluginCPPythonDatas \X PluginTypes \X InitialFileSystems} :
        c.resolved}

NoCorePluginData == [project_data |-> [pyproject_file |-> NoPath],
                     cppython_data |-> NoCPPythonData]

\* The group data of a plugin kind. No generator name is passed to any of
\* the three, so the field holds None.
NoGroupData ==
    [root_directory |-> NoPath, tool_directory |-> NoPath, generator_name |-> None]

GroupRaised(type, fsys) ==
    [outcome |-> "raised", error |-> type, value |-> NoGroupData, fs |-> fsys]

\* XPluginGroupData(root_directory=..., tool_directory=...): both are
\* directory paths.
PluginGroupData(root_directory, tool_directory, fsys) ==
    IF is_dir(fsys, root_directory) /\ is_dir(fsys, tool_directory)
    THEN [outcome |-> "returned", error |-> None,
          value |-> [root_directory |-> root_directory,
                     tool_directory |-> tool_directory,
                     generator_name |-> None],
          fs |-> fsys]
    ELSE GroupRaised("ValidationError", fsys)

\* The directory next to the build path instead of the manifest's.
group_root_directory_build(data) == parent(data.cppython_data.build_path)

\* root_directory = core_data.project_data.pyproject_file.parent
group_root_directory(data) == parent(data.project_data.pyproject_file)

\* _write_tool_directory(core_data, directory): the path, and the making of it.
plugin_directory(data, directory) ==
    truediv(truediv(data.cppython_data.tool_path, Path("", <<"cppython">>)), directory)

\* The body shared by the three functions: the root directory, the tool
\* directory written under the kind's directory and the plugin's name, and
\* the group data made of the two.
resolve_plugin_group(data, kind_directory, plugin_name, fsys) ==
    LET root_directory == group_root_directory(data)
        tool_directory == plugin_directory(data, Path("", <<kind_directory, plugin_name>>))
        made == mkdir(fsys, tool_directory)
    IN  IF ~made.ok THEN GroupRaised(made.error, made.fs)
        ELSE PluginGroupData(root_directory, tool_directory, made.fs)

resolve_generator(data, fsys) ==
    resolve_plugin_group(data, "generators", data.cppython_data.generator_name, fsys)

resolve_provider(data, fsys) ==
    resolve_plugin_group(data, "providers", data.cppython_data.provider_name, fsys)

resolve_scm(data, fsys) ==
    resolve_plugin_group(data, "managers", data.cppython_data.scm_name, fsys)

NoGroupCall == [called |-> FALSE, result |-> GroupRaised(None, NoFileSystem)]

ResolveGenerator ==
    /\ LET result == resolve_generator(core_data, fs)
       IN  /\ group_calls' = [group_calls EXCEPT
                                  !["generator"] = [called |-> TRUE, result |-> result]]
           /\ fs' = result.fs
    /\ UNCHANGED <<core_data, cppython_call, cppython_recall, plugin_calls, resolves>>
    /\ UNCHANGED not_group_fs_vars

ResolveProvider ==
    /\ LET result == resolve_provider(core_data, fs)
       IN  /\ group_calls' = [group_calls EXCEPT
                                  !["provider"] = [called |-> TRUE, result |-> result]]
           /\ fs' = result.fs
    /\ UNCHANGED <<core_data, cppython_call, cppython_recall, plugin_calls, resolves>>
    /\ UNCHANGED not_group_fs_vars

ResolveSCM ==
    /\ LET result == resolve_scm(core_data, fs)
       IN  /\ group_calls' = [group_calls EXCEPT
                                  !["scm"] = [called |-> TRUE, result |-> result]]
           /\ fs' = result.fs
    /\ UNCHANGED <<core_data, cppython_call, cppython_recall, plugin_calls, resolves>>
    /\ UNCHANGED not_group_fs_vars

IdleGroup ==
    /\ core_data = NoCorePluginData
    /\ group_calls = [k \in GroupKinds |-> NoGroupCall]

(***************************************************************************)
(* Tooling: download_tooling and the plugins' other operations             *)
(***************************************************************************)

\* The data plugins the host drives.
ToolingPlugins == {"vcpkg", "cmake", "ninja"}

\* install() and update()
PluginOperations == {"install", "update"}

\* The states of one plugin's download_tooling: not yet called, awaited,
\* returned, raised.
ToolingStates == {"pending", "downloading", "completed", "failed"}

\* An operation is let through as soon as the download was started.
tooling_requested(state) == state \in {"downloading", "completed"}

\* The plugin's tooling is fully present: its download_tooling has returned.
tooling_present(state) == state = "completed"

NoOperation == [last |-> "none", tooling_at_start |-> "pending"]

\* The host calls a plugin's download_tooling; the downloads of other
\* plugins may be under way.
StartDownload ==
    /\ \E p \in ToolingPlugins :
          /\ tooling[p] = "pending"
          /\ tooling' = [tooling EXCEPT ![p] = "downloading"]
    /\ UNCHANGED <<operations, activated, failures>>
    /\ UNCHANGED not_tooling_vars

\* A plugin's download_tooling returns: the plugin is activated.
CompleteDownload ==
    /\ \E p \in ToolingPlugins :
          /\ tooling[p] = "downloading"
          /\ tooling' = [tooling EXCEPT ![p] = "completed"]
          /\ activated' = activated \cup {p}
    /\ UNCHANGED <<operations, failures>>
    /\ UNCHANGED not_tooling_vars

\* A plugin's download_tooling raises: the error is fatal for the plugin's
\* activation and is kept.
FailDownload ==
    /\ \E p \in ToolingPlugins :
          /\ tooling[p] = "downloading"
          /\ tooling' = [tooling EXCEPT ![p] = "failed"]
          /\ failures' = failures \cup {p}
    /\ UNCHANGED <<operations, activated>>
    /\ UNCHANGED not_tooling_vars

\* The host starts install() or update() of a plugin whose tooling is
\* present.
StartOperation ==
    /\ \E p \in ToolingPlugins, operation \in PluginOperations :
          /\ tooling_present(tooling[p])
          /\ operations' = [operations EXCEPT
                                ![p] = [last |-> operation,
                                        tooling_at_start |-> tooling[p]]]
    /\ UNCHANGED <<tooling, activated, failures>>
    /\ UNCHANGED not_tooling_vars

IdleTooling ==
    /\ tooling = [p \in ToolingPlugins |-> "pending"]
    /\ operations = [p \in ToolingPlugins |-> NoOperation]
    /\ activated = {}
    /\ failures = {}

(***************************************************************************)
(* External tools: subprocess_call                                         *)
(***************************************************************************)

\* The number of lines a child writes.
MaxLines == 2

\* The lines a child writes to stdout or stderr, which Popen merges into one
\* pipe (stderr=subprocess.STDOUT).
OutputLines == {"Test Out", "Test Exit Out"}
Outputs == UNION {[1..n -> OutputLines] : n \in 0..MaxLines}

ReturnCodes == {0, 1, 2}

NoChild == [state |-> "none", unread |-> <<>>, returncode |-> 0]

\* What an exception of subprocess_call carries: its type, its message, and
\* the output attached to it.
NoProcessError == [type |-> None, message |-> None, output |-> <<>>]

\* ProcessError("Subprocess task failed"): the message is the only argument.
ProcessError(message) == [type |-> "ProcessError", message |-> message, output |-> <<>>]

\* if process.returncode != 0
failed(returncode) == returncode # 0

NoProcessCall ==
    [pc |-> "idle", suppress |-> FALSE, output |-> <<>>, returncode |-> 0,
     spawned |-> 0, outcome |-> "none", error |-> NoProcessError]

\* subprocess.Popen(arguments, stdout=PIPE, stderr=STDOUT, text=True): the
\* child is started; what it will write and how it will exit is its own.
Popen ==
    /\ process_call.pc = "idle"
    /\ \E output \in Outputs, returncode \in ReturnCodes, suppress \in BOOLEAN :
          /\ child' = [state |-> "running", unread |-> output, returncode |-> returncode]
          /\ process_call' = [process_call EXCEPT
                                  !.pc = "reading", !.suppress = suppress,
                                  !.output = output, !.returncode = returncode,
                                  !.spawned = process_call.spawned + 1]
    /\ process_log' = <<>>
    /\ UNCHANGED not_process_vars

\* for line in iter(pipe.readline, ""): the next line is read and, unless
\* suppressed, logged.
ReadLine ==
    /\ process_call.pc = "reading"
    /\ child.unread # <<>>
    /\ child' = [child EXCEPT !.unread = Tail(child.unread)]
    /\ process_log' = IF process_call.suppress THEN process_log
                      ELSE Append(process_log, Head(child.unread))
    /\ UNCHANGED process_call
    /\ UNCHANGED not_process_vars

\* The pipe is at its end: the Popen context waits for the child, and the
\* return code decides between returning and raising.
Finish ==
    /\ process_call.pc = "reading"
    /\ child.unread = <<>>
    /\ child' = [child EXCEPT !.state = "exited"]
    /\ process_call' =
           IF failed(child.returncode)
           THEN [process_call EXCEPT !.pc = "done", !.outcome = "raised",
                                     !.error = ProcessError("Subprocess task failed")]
           ELSE [process_call EXCEPT !.pc = "done", !.outcome = "returned"]
    /\ UNCHANGED process_log
    /\ UNCHANGED not_process_vars

IdleProcess ==
    /\ child = NoChild
    /\ process_log = <<>>
    /\ process_call = NoProcessCall

(***************************************************************************)
(* Aliased fields: population of a model from keyed data                   *)
(***************************************************************************)

\* The models with aliased fields: the test's Model, which keeps pydantic's
\* Extra.ignore, and CPPythonData, declared with extra=Extra.forbid.
AliasedClasses == {"Model", "CPPythonData"}

\* Per class, the aliased fields with alias and default.
AliasedFields(class) ==
    IF class = "Model"
    THEN [aliased_variable |-> [alias |-> "aliased-variable", default |-> "False"]]
    ELSE [install_path |-> [alias |-> "install-path", default |-> "~/.cppython"],
          tool_path |-> [alias |-> "tool-path", default |-> "tool"],
          build_path |-> [alias |-> "build-path", default |-> "build"]]

alias_extra(class) == IF class = "Model" THEN "ignore" ELSE "forbid"

\* The values data give a field of the class.
AliasedValues(class) == IF class = "Model" THEN {"True", "False"} ELSE {"out", "tool"}

AliasedFieldNames == {"aliased_variable", "install_path", "tool_path", "build_path"}
AliasKeys == {"aliased-variable", "install-path", "tool-path", "build-path"}
DataKeys == AliasedFieldNames \cup AliasKeys

\* The keys of a class: its fields' names and aliases.
ClassKeys(class) ==
    DOMAIN AliasedFields(class)
        \cup {AliasedFields(class)[f].alias : f \in DOMAIN AliasedFields(class)}

\* The keyed data given to a class: each of its keys left out or given with
\* a value.
KeyedData(class) ==
    {d \in [DataKeys -> AliasedValues(class) \cup {Omitted}] :
        \A k \in DataKeys \ ClassKeys(class) : d[k] = Omitted}

\* CPPythonModel.Config.allow_population_by_field_name
allow_population_by_field_name == FALSE

\* The value found for a field when its name is accepted in place of a
\* missing alias.
input_value_by_field_name(data, field, alias) ==
    IF data[alias] = Omitted THEN data[field] ELSE data[alias]

\* The value found for a field: input_data.get(field.alias), and with
\* allow_population_by_field_name the field's name when the alias is missing.
input_value(data, field, alias) ==
    IF data[alias] = Omitted /\ allow_population_by_field_name
    THEN data[field]
    ELSE data[alias]

\* The keys a construction has used: per field with a value, the key the
\* value came from.
names_used(class, data) ==
    {IF data[AliasedFields(class)[f].alias] = Omitted
     THEN f ELSE AliasedFields(class)[f].alias :
        f \in {g \in DOMAIN AliasedFields(class) :
                  input_value(data, g, AliasedFields(class)[g].alias) # Omitted}}

NoAliasedObject == [f \in AliasedFieldNames |-> None]

\* Model(**data): each field takes the value found for it, else its
\* default; a key that no field used is an error under Extra.forbid and
\* dropped under Extra.ignore.
populate(class, data) ==
    LET fields == AliasedFields(class)
        extras == {k \in DataKeys : data[k] # Omitted} \ names_used(class, data)
    IN  IF alias_extra(class) = "forbid" /\ extras # {}
        THEN [outcome |-> "ValidationError", object |-> NoAliasedObject]
        ELSE [outcome |-> "constructed",
              object |-> [f \in AliasedFieldNames |->
                             IF f \notin DOMAIN fields THEN None
                             ELSE IF input_value(data, f, fields[f].alias) = Omitted
                             THEN fields[f].default
                             ELSE input_value(data, f, fields[f].alias)]]

NoAliasConstruction ==
    [called |-> FALSE, class |-> "", data |-> [k \in DataKeys |-> Omitted],
     outcome |-> "none", object |-> NoAliasedObject]

\* A model with aliased fields is constructed from keyed data.
ConstructAliased ==
    /\ \E class \in AliasedClasses :
          \E data \in KeyedData(class) :
              alias_construction' =
                  [called |-> TRUE, class |-> class, data |-> data,
                   outcome |-> populate(class, data).outcome,
                   object |-> populate(class, data).object]
    /\ UNCHANGED not_alias_vars

IdleAlias == alias_construction = NoAliasConstruction

(***************************************************************************)
(* Plugin loggers: Plugin.logger                                           *)
(***************************************************************************)

\* Plugin classes: three that derive from the abstract Plugin, subclasses
\* of two of them, and a subclass of a subclass.
PluginClasses == {"Vcpkg", "VcpkgMock", "VcpkgMockLocal", "CMake", "CMakeMock", "Git"}

\* The class a plugin class derives from; Plugin is the abstract root, on
\* which logger() cannot be called.
base(class) ==
    CASE class = "VcpkgMock" -> "Vcpkg"
      [] class = "VcpkgMockLocal" -> "VcpkgMock"
      [] class = "CMakeMock" -> "CMake"
      [] OTHER -> "Plugin"

\* The method resolution order of a class, itself first, up to Plugin.
RECURSIVE mro(_)
mro(class) == IF class = "Plugin" THEN <<>> ELSE <<class>> \o mro(base(class))

\* cls.group() and cls.name()
group(class) ==
    CASE class \in {"CMake", "CMakeMock"} -> "generator"
      [] class = "Git" -> "scm"
      [] OTHER -> "provider"

plugin_name(class) ==
    CASE class = "Vcpkg" -> "vcpkg"
      [] class = "VcpkgMock" -> "mock"
      [] class = "VcpkgMockLocal" -> "local"
      [] class = "CMake" -> "cmake"
      [] class = "CMakeMock" -> "mock"
      [] OTHER -> "git"

\* No logger: the attribute is not set.
NoLogger == <<>>

\* getLogger(f"cppython.{cls.group()}.{cls.name()}"): the logging module
\* keeps one logger per name, identified here by the name's parts.
getLogger(class) == <<"cppython", group(class), plugin_name(class)>>

\* The classes of the resolution order that carry the attribute themselves.
RECURSIVE carriers(_, _)
carriers(order, loggers) ==
    IF order = <<>> THEN <<>>
    ELSE IF loggers[Head(order)] # NoLogger
    THEN <<Head(order)>> \o carriers(Tail(order), loggers)
    ELSE carriers(Tail(order), loggers)

\* hasattr(cls, "_logger"): the attribute is looked up along the resolution
\* order, so one set on a base class is found.
hasattr(class, loggers) == carriers(mro(class), loggers) # <<>>

\* Plugin.logger(): the class attributes afterwards and the logger returned.
logger(class, loggers) ==
    LET set == IF ~hasattr(class, loggers)
               THEN [loggers EXCEPT ![class] = getLogger(class)]
               ELSE loggers
    IN  [loggers |-> set, value |-> set[Head(carriers(mro(class), set))]]

NoLoggerCall == [called |-> FALSE, value |-> NoLogger, same |-> TRUE]

\* A plugin class requests its logger.
CallLogger ==
    /\ \E class \in PluginClasses :
          LET result == logger(class, class_loggers)
          IN  /\ class_loggers' = result.loggers
              /\ logger_calls' =
                     [logger_calls EXCEPT
                          ![class] = [called |-> TRUE, value |-> result.value,
                                      same |-> /\ logger_calls[class].same
                                               /\ logger_calls[class].called
                                                      => result.value = logger_calls[class].value]]
    /\ UNCHANGED not_logger_vars

IdleLogger ==
    /\ class_loggers = [c \in PluginClasses |-> NoLogger]
    /\ logger_calls = [c \in PluginClasses |-> NoLoggerCall]

(***************************************************************************)
(* Resolution on objects: copies, assignments and new values               *)
(***************************************************************************)

\* The number of objects a behaviour holds.
MaxObjects == 6

\* A configuration object: its class, its fields, and for a PEP621 its
\* dynamic list and for a ProjectConfiguration its manifest path.
HeapObject(class, fields, dynamic, pyproject_file) ==
    [class |-> class, fields |-> fields, dynamic |-> dynamic,
     pyproject_file |-> pyproject_file]

\* A version as a field value.
VersionValue(version) ==
    IF version = None THEN TextValue("NoneType", "None") ELSE TextValue("str", version)

\* A field value as the version it holds.
version_of(value) == IF value.kind = "str" THEN value.text ELSE None

\* The PEP621 objects a host holds: a literal version, a dynamic version, and
\* one constructed with neither.
PEP621Objects ==
    {HeapObject("PEP621",
                [NoObjectFields EXCEPT !["name"] = TextValue("str", "test"),
                                       !["version"] = VersionValue(c.version),
                                       !["description"] = TextValue("str", "")],
                c.dynamic, NoPath) :
        c \in {[version |-> "1.0.0", dynamic |-> <<>>],
               [version |-> None, dynamic |-> <<"version">>],
               [version |-> None, dynamic |-> <<>>]}}

\* The CPPythonData objects a host holds: the user's paths.
CPPythonDataObjects ==
    {HeapObject("CPPythonData",
                [NoObjectFields EXCEPT !["target"] = TextValue("str", "executable"),
                                       !["dependencies"] = TextValue("list", ""),
                                       !["install_path"] = PathValue(install_path),
                                       !["tool_path"] = PathValue(Path("", <<"tool">>)),
                                       !["build_path"] = PathValue(Path("", <<"build">>))],
                <<>>, NoPath) :
        install_path \in {Path("", <<"out">>), Path("/", <<"a", "b", "out">>)}}

\* The ProjectConfiguration objects a host holds.
ProjectConfigurationObjects ==
    {HeapObject("ProjectConfiguration",
                [NoObjectFields EXCEPT !["version"] = VersionValue(project.version)],
                <<>>, project.pyproject_file) :
        project \in ProjectConfigurations}

\* The references to the objects of a class.
References(h, class) == {i \in 1..Len(h) : h[i].class = class}

\* modified = self: a second name for the same object instead of a copy.
copy_alias(h, self) == [heap |-> h, ref |-> self]

\* self.copy(deep=True): a new object with the fields of self.
copy(h, self) == [heap |-> Append(h, h[self]), ref |-> Len(h) + 1]

\* An assignment to a field of the object behind a reference.
assign(h, ref, field, value) == [h EXCEPT ![ref].fields[field] = value]

FrameReturned(h, fsys, ref) ==
    [outcome |-> "returned", error |-> None, heap |-> h, fs |-> fsys, result |-> ref]
FrameRaised(type, h, fsys) ==
    [outcome |-> "raised", error |-> type, heap |-> h, fs |-> fsys, result |-> 0]

\* PEP621.resolve(project_configuration): the version is assigned to a copy,
\* under the version validator, and the resolved model is made of the copy's
\* fields.
PEP621_resolve(h, self, project, fsys) ==
    LET copied == copy(h, self)
        version == h[project].fields["version"]
        assigned == assign(copied.heap, copied.ref, "version", version)
        made == construct_model("PEP621Resolved", assigned[copied.ref].fields, fsys)
    IN  IF ~validate_version(version_of(version), [dynamic |-> h[self].dynamic])
        THEN FrameRaised("ValidationError", copied.heap, fsys)
        ELSE IF made.outcome # "constructed"
        THEN FrameRaised("ValidationError", assigned, fsys)
        ELSE FrameReturned(
                 Append(assigned, HeapObject("PEP621Resolved", made.fields, <<>>, NoPath)),
                 fsys, Len(assigned) + 1)

\* The assignment of the three paths of CPPythonData.resolve: a relative
\* path of the copy is replaced by the one under the root directory.
RECURSIVE assign_base_paths(_, _, _, _)
assign_base_paths(h, ref, root_directory, fields) ==
    IF fields = <<>> THEN h
    ELSE assign_base_paths(
             assign(h, ref, Head(fields),
                    PathValue(add_base_path(root_directory,
                                            h[ref].fields[Head(fields)].path))),
             ref, root_directory, Tail(fields))

\* CPPythonData.resolve(resolved_type, project_configuration)
CPPythonData_resolve(h, self, project, fsys) ==
    LET copied == copy(h, self)
        modified == copied.ref
        root_directory == absolute(parent(h[project].pyproject_file))
        assigned == assign_base_paths(copied.heap, modified, root_directory,
                                      <<"install_path", "tool_path", "build_path">>)
        made_install == mkdir(fsys, assigned[modified].fields["install_path"].path)
        made_tool == mkdir(made_install.fs, assigned[modified].fields["tool_path"].path)
        made_build == mkdir(made_tool.fs, assigned[modified].fields["build_path"].path)
        made == construct_model("CPPythonDataResolved", assigned[modified].fields,
                                made_build.fs)
    IN  IF ~made_install.ok THEN FrameRaised(made_install.error, assigned, made_install.fs)
        ELSE IF ~made_tool.ok THEN FrameRaised(made_tool.error, assigned, made_tool.fs)
        ELSE IF ~made_build.ok THEN FrameRaised(made_build.error, assigned, made_build.fs)
        ELSE IF made.outcome # "constructed"
        THEN FrameRaised("ValidationError", assigned, made_build.fs)
        ELSE FrameReturned(
                 Append(assigned,
                        HeapObject("CPPythonDataResolved", made.fields, <<>>, NoPath)),
                 made_build.fs, Len(assigned) + 1)

\* CPPythonDataResolved.generator_resolve(generator_type): the install path
\* of a copy is assigned the generator's subdirectory, which the assignment
\* validates as an existing absolute directory, and then made.
generator_resolve(h, self, generator_name, fsys) ==
    LET copied == copy(h, self)
        modified == copied.ref
        value == PathValue(truediv(copied.heap[modified].fields["install_path"].path,
                                   Path("", <<generator_name>>)))
        set == setattr_model("CPPythonDataResolved", copied.heap[modified].fields,
                             "install_path", value, fsys)
        made == mkdir(fsys, value.path)
    IN  IF set.outcome = "raised" THEN FrameRaised(set.error, copied.heap, fsys)
        ELSE IF ~made.ok
        THEN FrameRaised(made.error, [copied.heap EXCEPT ![modified].fields = set.fields],
                         made.fs)
        ELSE FrameReturned([copied.heap EXCEPT ![modified].fields = set.fields],
                           made.fs, modified)

\* The objects as the arguments the functions of resolution.py read.
as_PEP621(object) ==
    [dynamic |-> object.dynamic, name |-> object.fields["name"].text,
     version |-> version_of(object.fields["version"]),
     description |-> object.fields["description"].text]

as_project(object) ==
    [pyproject_file |-> object.pyproject_file,
     version |-> version_of(object.fields["version"])]

as_local(object) ==
    [install_path |-> object.fields["install_path"].path,
     tool_path |-> object.fields["tool_path"].path,
     build_path |-> object.fields["build_path"].path,
     provider_name |-> None, generator_name |-> None, dependencies |-> <<>>]

as_cppython_data(object) ==
    [install_path |-> object.fields["install_path"].path,
     tool_path |-> object.fields["tool_path"].path,
     build_path |-> object.fields["build_path"].path,
     current_check |-> FALSE, provider_name |-> "conan", generator_name |-> "cmake",
     scm_name |-> "git", dependencies |-> <<>>]

\* The value a function returns, as a new object.
PEP621DataObject(value) ==
    HeapObject("PEP621Data",
               [NoObjectFields EXCEPT !["name"] = TextValue("str", value.name),
                                      !["version"] = TextValue("str", value.version),
                                      !["description"] = TextValue("str", value.description)],
               <<>>, NoPath)

CPPythonDataObject(value) ==
    HeapObject("CPPythonDataResolved",
               [NoObjectFields EXCEPT !["target"] = TextValue("str", "executable"),
                                      !["dependencies"] = TextValue("list", ""),
                                      !["install_path"] = PathValue(value.install_path),
                                      !["tool_path"] = PathValue(value.tool_path),
                                      !["build_path"] = PathValue(value.build_path)],
               <<>>, NoPath)

NoFrameCall ==
    [operation |-> "none", before |-> <<>>, outcome |-> "none", error |-> None,
     result |-> 0]

\* What a resolution on objects leaves alone besides the tool
\* configuration's records: it writes the heap, the file system and its own
\* record.
not_frame_fs_vars ==
    <<pep621_vars, identity_vars, extract_vars, model_vars, sync_vars,
      resolved_vars, project_vars, group_vars, tooling_vars, process_vars,
      alias_vars, logger_vars, race_vars>>

\* The state after a resolution on objects.
Framed(operation, result) ==
    /\ heap' = result.heap
    /\ fs' = result.fs
    /\ frame_call' = [operation |-> operation, before |-> heap,
                      outcome |-> result.outcome, error |-> result.error,
                      result |-> result.result]
    /\ UNCHANGED <<cppython_call, cppython_recall, plugin_calls, resolves>>
    /\ UNCHANGED not_frame_fs_vars

MethodPEP621Resolve ==
    \E self \in References(heap, "PEP621"),
       project \in References(heap, "ProjectConfiguration") :
        /\ Len(heap) + 2 <= MaxObjects
        /\ Framed("PEP621.resolve", PEP621_resolve(heap, self, project, fs))

MethodCPPythonDataResolve ==
    \E self \in References(heap, "CPPythonData"),
       project \in References(heap, "ProjectConfiguration") :
        /\ Len(heap) + 2 <= MaxObjects
        /\ Framed("CPPythonData.resolve", CPPythonData_resolve(heap, self, project, fs))

MethodGeneratorResolve ==
    \E self \in References(heap, "CPPythonDataResolved"), generator_name \in PluginNames :
        /\ Len(heap) + 1 <= MaxObjects
        /\ Framed("generator_resolve", generator_resolve(heap, self, generator_name, fs))

FunctionResolvePEP621 ==
    \E configuration \in References(heap, "PEP621"),
       project \in References(heap, "ProjectConfiguration"), scm \in SCMs :
        LET result == resolve_pep621(as_PEP621(heap[configuration]),
                                     as_project(heap[project]), scm)
        IN  /\ Len(heap) + 1 <= MaxObjects
            /\ Framed("resolve_pep621",
                      IF result.outcome = "returned"
                      THEN FrameReturned(Append(heap, PEP621DataObject(result.value)),
                                         fs, Len(heap) + 1)
                      ELSE FrameRaised(result.error.type, heap, fs))

FunctionResolveCPPython ==
    \E local \in References(heap, "CPPythonData"),
       project \in References(heap, "ProjectConfiguration") :
        LET result == resolve_cppython(as_local(heap[local]), [current_check |-> FALSE],
                                       [pyproject_file |-> heap[project].pyproject_file],
                                       CHOOSE build \in PluginCPPythonDatas : TRUE, fs)
        IN  /\ Len(heap) + 1 <= MaxObjects
            /\ Framed("resolve_cppython",
                      IF result.outcome = "returned"
                      THEN FrameReturned(Append(heap, CPPythonDataObject(result.value)),
                                         result.fs, Len(heap) + 1)
                      ELSE FrameRaised(result.error, heap, result.fs))

FunctionResolveCPPythonPlugin ==
    \E cppython_data \in References(heap, "CPPythonDataResolved"),
       plugin_type \in PluginTypes :
        LET result == resolve_cppython_plugin(as_cppython_data(heap[cppython_data]),
                                              plugin_type, fs)
        IN  /\ Len(heap) + 1 <= MaxObjects
            /\ Framed("resolve_cppython_plugin",
                      IF result.outcome = "returned"
                      THEN FrameReturned(Append(heap, CPPythonDataObject(result.value)),
                                         result.fs, Len(heap) + 1)
                      ELSE FrameRaised(result.error, heap, result.fs))

IdleFrame ==
    /\ heap = <<>>
    /\ frame_call = NoFrameCall

(***************************************************************************)
(* Concurrent resolutions: the steps of Path.mkdir on a shared file system *)
(***************************************************************************)

\* The resolutions that run at the same time.
Workers == {1, 2}

\* The directories one resolution makes, in the order it makes them: the
\* install, tool and build paths of resolve_cppython, the plugin's install
\* path of resolve_cppython_plugin, and the generator's tool directory of
\* _write_tool_directory.
resolution_directories(local, project_data, plugin_build_data, plugin_type) ==
    LET root_directory == absolute(parent(project_data.pyproject_file))
        install_path == add_base_path(root_directory, local.install_path)
        tool_path == add_base_path(root_directory, local.tool_path)
        build_path == add_base_path(root_directory, local.build_path)
        data == [cppython_data |-> [tool_path |-> tool_path]]
    IN  <<absolute(install_path).parts,
          absolute(tool_path).parts,
          absolute(build_path).parts,
          absolute(plugin_install_path(install_path, plugin_type)).parts,
          absolute(plugin_directory(
                       data, Path("", <<"generators",
                                        plugin_build_data.generator_name>>))).parts>>

\* Whether a regular file stands where a directory above the path is needed.
ancestor_file(fsys, parts) ==
    \E k \in 1..(Len(parts) - 1) : SubSeq(parts, 1, k) \in fsys.files

\* os.mkdir(path): one system call.  The directory above must exist; the
\* path itself must not.
os_mkdir(fsys, parts) ==
    LET up == SubSeq(parts, 1, Len(parts) - 1)
    IN  IF parts = <<>> THEN MkdirError("FileExistsError", fsys)
        ELSE IF ancestor_file(fsys, parts) THEN MkdirError("NotADirectoryError", fsys)
        ELSE IF up \notin fsys.dirs THEN MkdirError("FileNotFoundError", fsys)
        ELSE IF parts \in fsys.dirs \/ parts \in fsys.files
        THEN MkdirError("FileExistsError", fsys)
        ELSE MkdirOK(FileSystem(fsys.dirs \cup {parts}, fsys.files))

\* mkdir without exist_ok, the default of Path.mkdir.
exist_ok_default == FALSE

\* mkdir(parents=True, exist_ok=True): the flag every resolution passes.
exist_ok == TRUE

\* One activation of Path.mkdir: its path and flags, where it stands (before
\* os.mkdir, or before is_dir() in the handler of OSError), the error it
\* caught, and whether the directory was missing when it was entered.
MkdirFrame(parts, parents, exist, missing) ==
    [parts |-> parts, parents |-> parents, exist_ok |-> exist, pc |-> "mkdir",
     error |-> None, missing |-> missing]

\* One resolution: its directories, the next one to make, the activations of
\* mkdir, its outcome, and whether it met a directory that another resolution
\* made after this one found it missing.
Worker(directories) ==
    [directories |-> directories, next |-> 1, stack |-> <<>>, outcome |-> "running",
     error |-> None, failed |-> <<>>, raced |-> FALSE]

NoWorker ==
    [directories |-> <<>>, next |-> 1, stack |-> <<>>, outcome |-> "none",
     error |-> None, failed |-> <<>>, raced |-> FALSE]

top(stack) == stack[Len(stack)]
pop(stack) == SubSeq(stack, 1, Len(stack) - 1)

\* The exception leaves every activation of mkdir and the resolution.
raise(worker, type, parts) ==
    [worker EXCEPT !.stack = <<>>, !.outcome = "raised", !.error = type,
                   !.failed = parts]

\* What a step of a concurrent resolution leaves alone.
not_race_fs_vars ==
    <<pep621_vars, identity_vars, extract_vars, model_vars, sync_vars,
      resolved_vars, project_vars, group_vars, tooling_vars, process_vars,
      alias_vars, logger_vars, frame_vars>>

Raced(w, worker, fsys) ==
    /\ workers' = [workers EXCEPT ![w] = worker]
    /\ fs' = fsys
    /\ UNCHANGED <<cppython_call, cppython_recall, plugin_calls, resolves>>
    /\ UNCHANGED not_race_fs_vars

\* path.mkdir(parents=True, exist_ok=True) is called for the next directory.
BeginMkdir(w) ==
    LET me == workers[w]
    IN  /\ me.outcome = "running"
        /\ me.stack = <<>>
        /\ me.next <= Len(me.directories)
        /\ Raced(w, [me EXCEPT !.stack = <<MkdirFrame(me.directories[me.next], TRUE,
                                                      exist_ok,
                                                      me.directories[me.next]
                                                          \notin fs.dirs)>>,
                               !.next = me.next + 1],
                 fs)

\* The os.mkdir of the innermost activation: on success the activation
\* returns; on FileNotFoundError with parents the directory above is made by
\* a nested mkdir(parents=True, exist_ok=True) and this one continues as
\* mkdir(parents=False); another OSError is raised again without exist_ok and
\* goes on to is_dir() with it.
OsMkdir(w) ==
    LET me == workers[w]
        frame == top(me.stack)
        made == os_mkdir(fs, frame.parts)
        up == SubSeq(frame.parts, 1, Len(frame.parts) - 1)
    IN  /\ me.outcome = "running"
        /\ me.stack # <<>>
        /\ frame.pc = "mkdir"
        /\ IF made.ok
           THEN Raced(w, [me EXCEPT !.stack = pop(me.stack)], made.fs)
           ELSE IF made.error = "FileNotFoundError"
           THEN IF ~frame.parents \/ frame.parts = <<>>
                THEN Raced(w, raise(me, made.error, frame.parts), fs)
                ELSE Raced(w, [me EXCEPT !.stack =
                                   Append(Append(pop(me.stack),
                                                 [frame EXCEPT !.parents = FALSE]),
                                          MkdirFrame(up, TRUE, TRUE, TRUE))],
                           fs)
           ELSE IF ~frame.exist_ok
                THEN Raced(w, raise(me, made.error, frame.parts), fs)
                ELSE Raced(w, [me EXCEPT !.stack =
                                   Append(pop(me.stack),
                                          [frame EXCEPT !.pc = "is_dir",
                                                        !.error = made.error])],
                           fs)

\* "if not exist_ok or not self.is_dir(): raise"
IsDir(w) ==
    LET me == workers[w]
        frame == top(me.stack)
    IN  /\ me.outcome = "running"
        /\ me.stack # <<>>
        /\ frame.pc = "is_dir"
        /\ IF frame.parts \in fs.dirs
           THEN Raced(w, [me EXCEPT !.stack = pop(me.stack),
                                    !.raced = me.raced \/ frame.missing],
                      fs)
           ELSE Raced(w, raise(me, frame.error, frame.parts), fs)

\* The last directory is made and the resolution returns.
FinishResolution(w) ==
    LET me == workers[w]
    IN  /\ me.outcome = "running"
        /\ me.stack = <<>>
        /\ me.next > Len(me.directories)
        /\ Raced(w, [me EXCEPT !.outcome = "returned"], fs)

IdleRace ==
    /\ workers = [w \in Workers |-> NoWorker]

(***************************************************************************)
(* Specifications                                                          *)
(***************************************************************************)

IdlePEP621 ==
    /\ pep621_configuration = NoConstruction
    /\ project_configuration = [pyproject_file |-> NoPath, version |-> None]
    /\ pep621_call = NoPEP621Call

IdleIdentity ==
    /\ type_name = <<>>
    /\ identity_call = NoIdentityCall

IdleCPPython ==
    /\ fs = NoFileSystem
    /\ cppython_call = NoCPPythonCall
    /\ cppython_recall = NoCPPythonCall
    /\ plugin_calls = [p \in PluginTypes |-> NoPluginCall]
    /\ resolves = 0

IdleExtract ==
    /\ local_tables = [provider |-> [n \in PluginNames |-> NoEntry],
                       generator |-> [n \in PluginNames |-> NoEntry]]
    /\ extraction = NoExtraction

\* PEP 621 construction and resolution.
InitPEP621 ==
    /\ pep621_configuration = NoConstruction
    /\ project_configuration \in ProjectConfigurations
    /\ pep621_call = NoPEP621Call
    /\ IdleIdentity
    /\ IdleCPPython
    /\ IdleExtract
    /\ IdleModel
    /\ IdleSync
    /\ IdleResolved
    /\ IdleProject
    /\ IdleGroup
    /\ IdleTooling
    /\ IdleProcess
    /\ IdleAlias
    /\ IdleLogger
    /\ IdleFrame
    /\ IdleRace

NextPEP621 == ConstructPEP621 \/ ResolvePEP621

SpecPEP621 == InitPEP621 /\ [][NextPEP621]_vars

\* Plugin identity.
InitIdentity ==
    /\ type_name \in TypeNames
    /\ identity_call = NoIdentityCall
    /\ IdlePEP621
    /\ IdleCPPython
    /\ IdleExtract
    /\ IdleModel
    /\ IdleSync
    /\ IdleResolved
    /\ IdleProject
    /\ IdleGroup
    /\ IdleTooling
    /\ IdleProcess
    /\ IdleAlias
    /\ IdleLogger
    /\ IdleFrame
    /\ IdleRace

NextIdentity == ResolveFullName \/ ResolveName \/ ResolveGroup

SpecIdentity == InitIdentity /\ [][NextIdentity]_vars

\* Tool configuration on the file system.
InitCPPython ==
    /\ fs \in InitialFileSystems
    /\ cppython_call = NoCPPythonCall
    /\ cppython_recall = NoCPPythonCall
    /\ plugin_calls = [p \in PluginTypes |-> NoPluginCall]
    /\ resolves = 0
    /\ IdlePEP621
    /\ IdleIdentity
    /\ IdleExtract
    /\ IdleModel
    /\ IdleSync
    /\ IdleResolved
    /\ IdleProject
    /\ IdleGroup
    /\ IdleTooling
    /\ IdleProcess
    /\ IdleAlias
    /\ IdleLogger
    /\ IdleFrame
    /\ IdleRace

NextCPPython ==
    CallResolveCPPython \/ RecallResolveCPPython \/ CallResolveCPPythonPlugin

SpecCPPython == InitCPPython /\ [][NextCPPython]_vars

\* Extraction of plugin tables.
InitExtract ==
    /\ local_tables \in LocalTables
    /\ extraction = NoExtraction
    /\ IdlePEP621
    /\ IdleIdentity
    /\ IdleCPPython
    /\ IdleModel
    /\ IdleSync
    /\ IdleResolved
    /\ IdleProject
    /\ IdleGroup
    /\ IdleTooling
    /\ IdleProcess
    /\ IdleAlias
    /\ IdleLogger
    /\ IdleFrame
    /\ IdleRace

NextExtract == ExtractPluginData

SpecExtract == InitExtract /\ [][NextExtract]_vars

\* Validation of payloads.
InitModel ==
    /\ model_call = NoModelCall
    /\ IdlePEP621
    /\ IdleIdentity
    /\ IdleCPPython
    /\ IdleExtract
    /\ IdleSync
    /\ IdleResolved
    /\ IdleProject
    /\ IdleGroup
    /\ IdleTooling
    /\ IdleProcess
    /\ IdleAlias
    /\ IdleLogger
    /\ IdleFrame
    /\ IdleRace

NextModel == ResolveModel

SpecModel == InitModel /\ [][NextModel]_vars

\* Sync negotiation.
InitSync ==
    /\ producer \in Producers
    /\ sync_calls = NoSyncCalls
    /\ IdlePEP621
    /\ IdleIdentity
    /\ IdleCPPython
    /\ IdleExtract
    /\ IdleModel
    /\ IdleResolved
    /\ IdleProject
    /\ IdleGroup
    /\ IdleTooling
    /\ IdleProcess
    /\ IdleAlias
    /\ IdleLogger
    /\ IdleFrame
    /\ IdleRace

NextSync == ProbeSync \/ FetchSync

SpecSync == InitSync /\ [][NextSync]_vars

\* Resolved-form models on a materialized file system.
InitResolved ==
    /\ resolved_model = NoResolvedModel
    /\ assignment = NoAssignment
    /\ fs = ResolvedFileSystem
    /\ cppython_call = NoCPPythonCall
    /\ cppython_recall = NoCPPythonCall
    /\ plugin_calls = [p \in PluginTypes |-> NoPluginCall]
    /\ resolves = 0
    /\ IdlePEP621
    /\ IdleIdentity
    /\ IdleExtract
    /\ IdleModel
    /\ IdleSync
    /\ IdleProject
    /\ IdleGroup
    /\ IdleTooling
    /\ IdleProcess
    /\ IdleAlias
    /\ IdleLogger
    /\ IdleFrame
    /\ IdleRace

NextResolved == ConstructResolved \/ AssignResolved

\* Project configurations on a file system with the manifests.
InitProject ==
    /\ project_construction = NoProjectConstruction
    /\ project_resolution = NoProjectResolution
    /\ fs = ProjectFileSystem
    /\ cppython_call = NoCPPythonCall
    /\ cppython_recall = NoCPPythonCall
    /\ plugin_calls = [p \in PluginTypes |-> NoPluginCall]
    /\ resolves = 0
    /\ IdlePEP621
    /\ IdleIdentity
    /\ IdleExtract
    /\ IdleModel
    /\ IdleSync
    /\ IdleResolved
    /\ IdleGroup
    /\ IdleTooling
    /\ IdleProcess
    /\ IdleAlias
    /\ IdleLogger
    /\ IdleFrame
    /\ IdleRace

NextProject == ConstructProjectConfiguration \/ ResolveProjectConfiguration

\* Group data from resolved core data.
InitGroup ==
    /\ \E c \in CorePluginDatas :
          /\ core_data = [project_data |-> c.project_data,
                          cppython_data |-> c.cppython_data]
          /\ fs = c.fs
    /\ group_calls = [k \in GroupKinds |-> NoGroupCall]
    /\ cppython_call = NoCPPythonCall
    /\ cppython_recall = NoCPPythonCall
    /\ plugin_calls = [p \in PluginTypes |-> NoPluginCall]
    /\ resolves = 0
    /\ IdlePEP621
    /\ IdleIdentity
    /\ IdleExtract
    /\ IdleModel
    /\ IdleSync
    /\ IdleResolved
    /\ IdleProject
    /\ IdleTooling
    /\ IdleProcess
    /\ IdleAlias
    /\ IdleLogger
    /\ IdleFrame
    /\ IdleRace

NextGroup == ResolveGenerator \/ ResolveProvider \/ ResolveSCM

\* The host's scheduling of downloads and operations.
InitTooling ==
    /\ tooling = [p \in ToolingPlugins |-> "pending"]
    /\ operations = [p \in ToolingPlugins |-> NoOperation]
    /\ activated = {}
    /\ failures = {}
    /\ IdlePEP621
    /\ IdleIdentity
    /\ IdleCPPython
    /\ IdleExtract
    /\ IdleModel
    /\ IdleSync
    /\ IdleResolved
    /\ IdleProject
    /\ IdleGroup
    /\ IdleProcess
    /\ IdleAlias
    /\ IdleLogger
    /\ IdleFrame
    /\ IdleRace

\* Constructions of models with aliased fields.
InitAlias ==
    /\ alias_construction = NoAliasConstruction
    /\ IdlePEP621
    /\ IdleIdentity
    /\ IdleCPPython
    /\ IdleExtract
    /\ IdleModel
    /\ IdleSync
    /\ IdleResolved
    /\ IdleProject
    /\ IdleGroup
    /\ IdleTooling
    /\ IdleProcess
    /\ IdleLogger
    /\ IdleFrame
    /\ IdleRace

NextAlias == ConstructAliased

SpecAlias == InitAlias /\ [][NextAlias]_vars

\* Plugin classes requesting their loggers in any order.
InitLogger ==
    /\ class_loggers = [c \in PluginClasses |-> NoLogger]
    /\ logger_calls = [c \in PluginClasses |-> NoLoggerCall]
    /\ IdlePEP621
    /\ IdleIdentity
    /\ IdleCPPython
    /\ IdleExtract
    /\ IdleModel
    /\ IdleSync
    /\ IdleResolved
    /\ IdleProject
    /\ IdleGroup
    /\ IdleTooling
    /\ IdleProcess
    /\ IdleAlias
    /\ IdleFrame
    /\ IdleRace

NextLogger == CallLogger

SpecLogger == InitLogger /\ [][NextLogger]_vars

\* A host holding a PEP621, a CPPythonData and a ProjectConfiguration, on a
\* file system with the manifests.
InitFrame ==
    /\ \E pep621 \in PEP621Objects, cppython \in CPPythonDataObjects,
          project \in ProjectConfigurationObjects :
          heap = <<pep621, cppython, project>>
    /\ frame_call = NoFrameCall
    /\ fs = FileSystem(BaseDirs, ManifestFiles)
    /\ cppython_call = NoCPPythonCall
    /\ cppython_recall = NoCPPythonCall
    /\ plugin_calls = [p \in PluginTypes |-> NoPluginCall]
    /\ resolves = 0
    /\ IdlePEP621
    /\ IdleIdentity
    /\ IdleExtract
    /\ IdleModel
    /\ IdleSync
    /\ IdleResolved
    /\ IdleProject
    /\ IdleGroup
    /\ IdleTooling
    /\ IdleProcess
    /\ IdleAlias
    /\ IdleLogger
    /\ IdleRace

NextFrame ==
    \/ MethodPEP621Resolve
    \/ MethodCPPythonDataResolve
    \/ MethodGeneratorResolve
    \/ FunctionResolvePEP621
    \/ FunctionResolveCPPython
    \/ FunctionResolveCPPythonPlugin

SpecFrame == InitFrame /\ [][NextFrame]_vars

\* Two resolutions of one project start on one file system, each for a plugin
\* of its own or for the same one.
InitRace ==
    /\ \E install_path \in InstallPaths, project_data \in ProjectDatas,
          plugin_build_data \in PluginCPPythonDatas,
          plugin_types \in [Workers -> PluginTypes] :
          workers = [w \in Workers |->
                        Worker(resolution_directories(
                                   [install_path |-> install_path,
                                    tool_path |-> Path("", <<"tool">>),
                                    build_path |-> Path("", <<"build">>)],
                                   project_data, plugin_build_data, plugin_types[w]))]
    /\ fs \in InitialFileSystems
    /\ cppython_call = NoCPPythonCall
    /\ cppython_recall = NoCPPythonCall
    /\ plugin_calls = [p \in PluginTypes |-> NoPluginCall]
    /\ resolves = 0
    /\ IdlePEP621
    /\ IdleIdentity
    /\ IdleExtract
    /\ IdleModel
    /\ IdleSync
    /\ IdleResolved
    /\ IdleProject
    /\ IdleGroup
    /\ IdleTooling
    /\ IdleProcess
    /\ IdleAlias
    /\ IdleLogger
    /\ IdleFrame

NextRace ==
    \E w \in Workers :
        \/ BeginMkdir(w)
        \/ OsMkdir(w)
        \/ IsDir(w)
        \/ FinishResolution(w)

SpecRace == InitRace /\ [][NextRace]_vars

\* One call of subprocess_call.
InitProcess ==
    /\ child = NoChild
    /\ process_log = <<>>
    /\ process_call = NoProcessCall
    /\ IdlePEP621
    /\ IdleIdentity
    /\ IdleCPPython
    /\ IdleExtract
    /\ IdleModel
    /\ IdleSync
    /\ IdleResolved
    /\ IdleProject
    /\ IdleGroup
    /\ IdleTooling
    /\ IdleAlias
    /\ IdleLogger
    /\ IdleFrame
    /\ IdleRace

NextProcess == Popen \/ ReadLine \/ Finish

SpecProcess == InitProcess /\ [][NextProcess]_vars

NextTooling == StartDownload \/ CompleteDownload \/ FailDownload \/ StartOperation

SpecTooling == InitTooling /\ [][NextTooling]_vars

SpecGroup == InitGroup /\ [][NextGroup]_vars

SpecProject == InitProject /\ [][NextProject]_vars

SpecResolved == InitResolved /\ [][NextResolved]_vars

(***************************************************************************)
(* Properties of resolve_pep621 and of the PEP621 construction             *)
(***************************************************************************)

CallDynamic == Contains(pep621_call.configuration.dynamic, "version")

\* C1: when the configuration has a literal version and "version" is not in
\* its dynamic list, resolve_pep621 returns data whose version is that
\* literal, whatever project version and SCM plugin it is given.
C1_LiteralVersionUnchanged ==
    (/\ pep621_call.called
     /\ ~CallDynamic
     /\ pep621_call.configuration.version \in Versions)
    => /\ pep621_call.result.outcome = "returned"
       /\ pep621_call.result.value.version = pep621_call.configuration.version

\* C1 (witness): a literal version is resolved while both an external project
\* version and an SCM plugin are supplied.
C1_Witness ==
    /\ pep621_call.called
    /\ ~CallDynamic
    /\ pep621_call.configuration.version = "1.0.0"
    /\ pep621_call.project.version = "0.1.0"
    /\ pep621_call.scm.present
    /\ pep621_call.result.value.version = "1.0.0"

\* C2 (as claimed): with "version" dynamic, no external project version and no
\* SCM plugin, resolve_pep621 fails with a ConfigError and returns no data.
C2_DynamicNoSourceConfigError ==
    (/\ pep621_call.called
     /\ CallDynamic
     /\ pep621_call.project.version = None
     /\ ~pep621_call.scm.present)
    => /\ pep621_call.result.outcome = "raised"
       /\ pep621_call.result.error.type = "ConfigError"
       /\ pep621_call.result.value = NoData

\* C3: with "version" dynamic, the resolved version is the external project
\* version when there is one, and the SCM plugin is then not queried; without
\* one it is what the SCM plugin's version() answers for the manifest's parent
\* directory, queried once; the returned data has no None field.
C3_DynamicVersionSource ==
    (pep621_call.called /\ CallDynamic)
    => LET project == pep621_call.project
           result == pep621_call.result
           manifest == project.pyproject_file
           directory == [anchor |-> manifest.anchor,
                         parts |-> SubSeq(manifest.parts, 1, Len(manifest.parts) - 1)]
       IN  /\ project.version # None
              => /\ result.outcome = "returned"
                 /\ result.value.version = project.version
                 /\ result.scm_calls = <<>>
           /\ (project.version = None /\ pep621_call.scm.present)
              => /\ result.outcome = "returned"
                 /\ result.value.version = pep621_call.scm.answer
                 /\ result.scm_calls = <<directory>>
           /\ result.outcome = "returned"
              => /\ result.value.name # None
                 /\ result.value.version # None
                 /\ result.value.description # None

\* C3 (witness): a dynamic version without an external project version is
\* answered by the SCM plugin.
C3_Witness ==
    /\ pep621_call.called
    /\ CallDynamic
    /\ pep621_call.project.version = None
    /\ pep621_call.scm.present
    /\ pep621_call.result.outcome = "returned"
    /\ pep621_call.result.value.version = "3.0.0"
    /\ Len(pep621_call.result.scm_calls) = 1

VersionPresent(arguments) == arguments.version \in Versions

\* C4 (as claimed): a PEP621 construction succeeds only if exactly one of
\* {a version is given, "version" is in dynamic} holds; with neither and with
\* both it fails validation, so that no resolution sees such an object.
C4_ExactlyOneVersionSource ==
    /\ pep621_configuration.outcome = "constructed"
       => (VersionPresent(pep621_configuration.arguments)
           # Contains(pep621_configuration.arguments.dynamic, "version"))
    /\ pep621_call.called
       => ((pep621_call.configuration.version # None) # CallDynamic)

(***************************************************************************)
(* Properties of the plugin identity                                       *)
(***************************************************************************)

LowercaseOf == [c \in Letters |-> IF c = "A" THEN "a" ELSE IF c = "B" THEN "b" ELSE c]
Lowered(w) == [i \in 1..Len(w) |-> LowercaseOf[w[i]]]

\* A word: a capital followed by small letters, or an acronym in capitals.
IsCapitalized(w) ==
    /\ Len(w) >= 2
    /\ w[1] \in UpperCase
    /\ \A i \in 2..Len(w) : w[i] \in LowerCase
IsAcronym(w) == Len(w) >= 1 /\ \A i \in 1..Len(w) : w[i] \in UpperCase

\* Two words with a case boundary between them.
IsTwoWords(w1, w2) ==
    \/ IsCapitalized(w1) /\ IsCapitalized(w2)
    \/ IsAcronym(w1) /\ IsCapitalized(w2)
    \/ IsCapitalized(w1) /\ IsAcronym(w2)

Dots(value) == Cardinality({i \in 1..Len(value) : value[i] = "."})

\* C5: for a type name that is the concatenation of two words (an acronym may
\* be the first or the second), resolve_full_name returns the two words in
\* lowercase joined by the only dot, resolve_name the first and resolve_group
\* the second.
C5_TwoWordsFullName ==
    \A k \in 1..(Len(type_name) - 1) :
        LET w1 == SubSeq(type_name, 1, k)
            w2 == SubSeq(type_name, k + 1, Len(type_name))
        IN  IsTwoWords(w1, w2)
            => /\ identity_call.full_name.outcome # "none"
                  => /\ identity_call.full_name.outcome = "returned"
                     /\ identity_call.full_name.value = Lowered(w1) \o <<".">> \o Lowered(w2)
                     /\ Dots(identity_call.full_name.value) = 1
               /\ identity_call.name.outcome # "none"
                  => /\ identity_call.name.outcome = "returned"
                     /\ identity_call.name.value = Lowered(w1)
               /\ identity_call.group.outcome # "none"
                  => /\ identity_call.group.outcome = "returned"
                     /\ identity_call.group.value = Lowered(w2)

\* C5 (witness): an acronym followed by a word, resolved by all three.
C5_Witness ==
    /\ type_name = <<"A", "A", "B", "a">>
    /\ identity_call.full_name.value = <<"a", "a", ".", "b", "a">>
    /\ identity_call.name.value = <<"a", "a">>
    /\ identity_call.group.value = <<"b", "a">>

\* The case boundaries of a type name, counted on the name itself.
Boundaries(name) ==
    {i \in 2..Len(name) :
        /\ name[i] \in UpperCase
        /\ \/ name[i - 1] \in LowerCase
           \/ i < Len(name) /\ name[i + 1] \in LowerCase}

IsSingleWord(name) ==
    \/ IsCapitalized(name)
    \/ \A i \in 1..Len(name) : name[i] \in LowerCase

PathFields == {"install_path", "tool_path", "build_path"}

\* The components of the manifest's parent directory, made absolute.
ManifestDirectory(manifest) ==
    LET up == SubSeq(manifest.parts, 1, Len(manifest.parts) - 1)
    IN  IF manifest.anchor = "/" THEN up ELSE <<"w">> \o up

\* C7: after resolve_cppython has returned, each of install_path, tool_path
\* and build_path is absolute and an existing directory; a relative input is
\* the manifest's parent directory followed by the input, an absolute input
\* is kept ("out" with the manifest /a/b/pyproject.toml gives /a/b/out).
C7_PathsAbsoluteAndExisting ==
    (cppython_call.called /\ cppython_call.result.outcome = "returned")
    => LET local == cppython_call.arguments.local
           manifest == cppython_call.arguments.project_data.pyproject_file
           value == cppython_call.result.value
       IN  /\ \A f \in PathFields :
                 /\ value[f].anchor = "/"
                 /\ value[f].parts \in fs.dirs
                 /\ local[f].anchor = "/" => value[f] = local[f]
                 /\ local[f].anchor # "/"
                    => value[f].parts = ManifestDirectory(manifest) \o local[f].parts
           /\ (/\ local.install_path = [anchor |-> "", parts |-> <<"out">>]
               /\ manifest = [anchor |-> "/", parts |-> <<"a", "b", "pyproject.toml">>])
              => value.install_path = [anchor |-> "/", parts |-> <<"a", "b", "out">>]

\* C7 (witness): the install path "out" beside /a/b/pyproject.toml has been
\* resolved to the directory /a/b/out, which the call created.
C7_Witness ==
    /\ cppython_call.called
    /\ cppython_call.result.outcome = "returned"
    /\ cppython_call.arguments.local.install_path.parts = <<"out">>
    /\ cppython_call.arguments.project_data.pyproject_file.anchor = "/"
    /\ cppython_call.result.value.install_path.parts = <<"a", "b", "out">>
    /\ <<"a", "b", "out">> \notin cppython_call.fs_before.dirs
    /\ <<"a", "b", "out">> \in fs.dirs

\* C8: when resolve_cppython has returned and is called again with the same
\* arguments on the file system it left, the second call returns too, its
\* data equals the first call's field for field, and it leaves the file
\* system as it found it.
C8_ResolveTwiceIdentical ==
    (/\ cppython_recall.called
     /\ cppython_call.result.outcome = "returned")
    => /\ cppython_recall.arguments = cppython_call.arguments
       /\ cppython_recall.result.outcome = "returned"
       /\ \A f \in DOMAIN cppython_call.result.value :
             cppython_recall.result.value[f] = cppython_call.result.value[f]
       /\ cppython_recall.result.fs = cppython_recall.fs_before

\* C8 (witness): the first call created directories and the second call on
\* what the first left has returned.
C8_Witness ==
    /\ cppython_recall.called
    /\ cppython_call.result.outcome = "returned"
    /\ cppython_call.result.fs # cppython_call.fs_before
    /\ cppython_recall.fs_before = cppython_call.result.fs
    /\ cppython_recall.result.outcome = "returned"

\* C9: the configuration resolve_cppython_plugin returns has the input's
\* install_path followed by the plugin's name as its install_path, that
\* directory exists, and every other field is the input's.
C9_PluginInstallPathScoped ==
    \A p \in PluginTypes :
        (plugin_calls[p].called /\ plugin_calls[p].result.outcome = "returned")
        => LET input == plugin_calls[p].cppython_data
               value == plugin_calls[p].result.value
           IN  /\ value.install_path =
                      [anchor |-> input.install_path.anchor,
                       parts |-> input.install_path.parts \o <<p.name>>]
               /\ value.install_path.parts \in plugin_calls[p].result.fs.dirs
               /\ value.install_path.parts \in fs.dirs
               /\ \A f \in (DOMAIN input) \ {"install_path"} : value[f] = input[f]

\* C9 (witness): a plugin's configuration has been scoped into a directory
\* that the call created, with a current-check flag and a provider name to keep.
C9_Witness ==
    \E p \in PluginTypes :
        /\ plugin_calls[p].called
        /\ plugin_calls[p].result.outcome = "returned"
        /\ plugin_calls[p].cppython_data.current_check
        /\ plugin_calls[p].cppython_data.provider_name = "vcpkg"
        /\ plugin_calls[p].result.value.install_path.parts = <<"a", "b", "out", "foo">>

BothScoped(p, q) ==
    /\ plugin_calls[p].called
    /\ plugin_calls[q].called
    /\ plugin_calls[p].result.outcome = "returned"
    /\ plugin_calls[q].result.outcome = "returned"
    /\ plugin_calls[p].cppython_data = plugin_calls[q].cppython_data

\* C10 (as claimed): two plugins with different identities (name, group),
\* scoped from the same resolved configuration, get different install
\* directories.
C10_DistinctIdentitiesDistinctDirectories ==
    \A p, q \in PluginTypes :
        (p # q /\ BothScoped(p, q))
        => plugin_calls[p].result.value.install_path
           # plugin_calls[q].result.value.install_path

\* C10 (amended): two plugins with different names, scoped from the same
\* resolved configuration, get different install directories.
C10_DistinctNamesDistinctDirectories ==
    \A p, q \in PluginTypes :
        (p.name # q.name /\ BothScoped(p, q))
        => plugin_calls[p].result.value.install_path
           # plugin_calls[q].result.value.install_path

\* C10 (witness): two plugins with different names have been scoped from the
\* same configuration.
C10_Witness ==
    \E p, q \in PluginTypes : p.name # q.name /\ BothScoped(p, q)

(***************************************************************************)
(* Properties of the plugin table extraction                               *)
(***************************************************************************)

\* C11: extract_provider_data / extract_generator_data return exactly the
\* sub-table stored under the plugin's name in the table of the plugin's
\* group, and raise a KeyError, returning nothing, when that table has no
\* entry for the name.
C11_ExtractStoredSubTable ==
    extraction.called
    => LET plugin_type == extraction.plugin_type
           entry == local_tables[plugin_type.group][plugin_type.name]
       IN  /\ entry.present
              => (/\ extraction.result.outcome = "returned"
                  /\ extraction.result.value = entry.table)
           /\ ~entry.present
              => (/\ extraction.result.outcome = "raised"
                  /\ extraction.result.error = "KeyError"
                  /\ extraction.result.value = NoTable)

\* C11 (witness): a generator's sub-table has been extracted while the
\* provider table holds another sub-table under the same name.
C11_Witness ==
    /\ extraction.called
    /\ extraction.plugin_type = [name |-> "foo", group |-> "generator"]
    /\ local_tables.generator["foo"] = [present |-> TRUE, table |-> {<<"heck", "yeah">>}]
    /\ local_tables.provider["foo"] = [present |-> TRUE, table |-> {}]
    /\ extraction.result.outcome = "returned"
    /\ extraction.result.value = {<<"heck", "yeah">>}

(***************************************************************************)
(* Properties of resolve_model                                             *)
(***************************************************************************)

\* The fields of the called model that the payload gets wrong, counted on
\* the payload itself: a field without a value, or with a value of another
\* type.
BadFields ==
    LET model == ModelNamed(model_call.model)
    IN  {f \in DOMAIN model :
            \/ model_call.data[f] = Absent
            \/ model_call.data[f].kind # model[f]}

\* C12: resolve_model returns the validated model when the payload satisfies
\* the target model, and otherwise raises one ConfigException whose error
\* count is the number of fields of the model that the payload violates (1 for
\* a single bad field), not 1 for the first of several.
C12_ErrorCountIsViolations ==
    model_call.called
    => /\ BadFields = {}
          => (/\ model_call.result.outcome = "returned"
              /\ \A f \in DOMAIN ModelNamed(model_call.model) :
                    model_call.result.value[f] = model_call.data[f])
       /\ BadFields # {}
          => (/\ model_call.result.outcome = "raised"
              /\ model_call.result.error = "ConfigException"
              /\ model_call.result.error_count = Cardinality(BadFields)
              /\ model_call.result.value = NoModel)
       /\ (/\ model_call.model = "MockModel"
           /\ model_call.data["field"] = [kind |-> "int", text |-> "4"])
          => model_call.result.error_count = 1

\* C12 (witness): a payload with two bad fields has been rejected with an
\* error count of two.
C12_Witness ==
    /\ model_call.called
    /\ model_call.model = "PairModel"
    /\ model_call.data["field"] = [kind |-> "int", text |-> "4"]
    /\ model_call.data["count"] = Absent
    /\ model_call.result.outcome = "raised"
    /\ model_call.result.error_count = 2

(***************************************************************************)
(* Properties of the sync negotiation                                      *)
(***************************************************************************)

\* C13: for every sync type the producer does not support (a probe of it
\* answers False), a fetch of that type returns None and does not raise,
\* whether the caller probed before fetching or not.
C13_UnsupportedSyncDataIsNone ==
    \A t \in SyncTypes :
        LET call == sync_calls[t]
        IN  /\ call.probed => (call.probe <=> t \in producer)
            /\ (call.fetch.outcome # "none" /\ t \notin producer)
               => (/\ call.fetch.outcome = "returned"
                   /\ call.fetch.error = None
                   /\ call.fetch.value = NoSyncData)

\* C13 (witness): an unsupported type has been fetched without a probe, and
\* another unsupported type after a probe that answered False.
C13_Witness ==
    \E t, u \in SyncTypes :
        /\ t # u
        /\ t \notin producer
        /\ u \notin producer
        /\ ~sync_calls[t].probed
        /\ sync_calls[t].fetch.outcome = "returned"
        /\ sync_calls[u].probed_first
        /\ ~sync_calls[u].probe
        /\ sync_calls[u].fetch.outcome = "returned"


\* The assignment made is of a valid value to a field of the object's class.
ValidAssignment ==
    /\ assignment.name \in DOMAIN FieldTypes(resolved_model.class)
    /\ valid_value(fs, FieldTypes(resolved_model.class)[assignment.name],
                   assignment.value)

C16_DependenciesAndCurrentCheckCopied ==
    (cppython_call.called /\ cppython_call.result.outcome = "returned") =>
        /\ cppython_call.result.value.dependencies =
               cppython_call.arguments.local.dependencies
        /\ cppython_call.result.value.current_check =
               cppython_call.arguments.global.current_check

\* C17: for every integer verbosity given to ProjectConfiguration the
\* construction does not fail (it succeeds whenever the file is an existing
\* pyproject.toml and the version is given), and the verbosity carried into
\* ProjectData by resolve_project_configuration is the given one clamped to
\* [0, 2]; the manifest path is copied unchanged.
C17_VerbosityClampedPathCopied ==
    /\ (/\ project_construction.called
        /\ is_file(fs, project_construction.arguments.pyproject_file)
        /\ path_name(project_construction.arguments.pyproject_file) = "pyproject.toml"
        /\ project_construction.arguments.version # Omitted)
           => project_construction.outcome = "constructed"
    /\ (project_resolution.called /\ project_construction.arguments.verbosity.given) =>
           LET v == project_construction.arguments.verbosity.value
               carried == project_resolution.value.verbosity
           IN  /\ v < 0 => carried = 0
               /\ v > 2 => carried = 2
               /\ v \in 0..2 => carried = v
               /\ carried \in 0..2
    /\ project_resolution.called
           => project_resolution.value.pyproject_file =
                  project_construction.arguments.pyproject_file

\* A negative verbosity was given, the configuration was constructed, and
\* the resolved project data carries 0 and the relative manifest path.
C17_Witness ==
    /\ project_construction.arguments.verbosity.given
    /\ project_construction.arguments.verbosity.value < 0
    /\ project_construction.outcome = "constructed"
    /\ project_resolution.called
    /\ project_resolution.value.verbosity = 0
    /\ project_resolution.value.pyproject_file = Path("", <<"pyproject.toml">>)

\* C18: resolve_generator, resolve_provider and resolve_scm each return
\* group data whose root_directory is the parent directory of the manifest
\* file, whatever the install, tool and build paths of the configuration.
C18_RootIsManifestParent ==
    \A k \in GroupKinds :
        (group_calls[k].called /\ group_calls[k].result.outcome = "returned") =>
            LET manifest == core_data.project_data.pyproject_file
                root == group_calls[k].result.value.root_directory
            IN  /\ root.anchor = manifest.anchor
                /\ root.parts \o <<"pyproject.toml">> = manifest.parts

\* All three were called on a configuration whose install path lies in the
\* home directory and whose build path lies under out/, for the manifest in
\* /a/b: each root directory is /a/b.
C18_Witness ==
    /\ core_data.project_data.pyproject_file = Path("/", <<"a", "b", "pyproject.toml">>)
    /\ core_data.cppython_data.install_path.parts[1] = "h"
    /\ core_data.cppython_data.build_path = Path("/", <<"a", "b", "out", "build">>)
    /\ \A k \in GroupKinds :
          /\ group_calls[k].called
          /\ group_calls[k].result.outcome = "returned"
          /\ group_calls[k].result.value.root_directory = Path("/", <<"a", "b">>)

\* C19 (as stated): the group data returned by resolve_provider carries the
\* resolved generator's name, equal to the generator_name of the resolved
\* tool configuration it was built from.
C19_ProviderGroupCarriesGeneratorName ==
    (group_calls["provider"].called
        /\ group_calls["provider"].result.outcome = "returned") =>
        group_calls["provider"].result.value.generator_name =
            core_data.cppython_data.generator_name

\* C20: for every plugin, however the downloads of the plugins interleave,
\* none of the plugin's other operations (install, update) starts before the
\* plugin's download_tooling has completed; a failed download keeps the
\* plugin from being activated and is kept as a failure.
C20_OperationsAfterDownload ==
    \A p \in ToolingPlugins :
        /\ operations[p].last # "none" =>
               /\ operations[p].tooling_at_start = "completed"
               /\ tooling[p] = "completed"
        /\ tooling[p] = "failed" =>
               /\ p \notin activated
               /\ p \in failures
               /\ operations[p].last = "none"
        /\ tooling[p] \in {"pending", "downloading"} => p \notin activated

\* One plugin has started install() after its download, while the download
\* of a second is under way and that of a third has failed.
C20_Witness ==
    \E p, q, r \in ToolingPlugins :
        /\ operations[p].last = "install"
        /\ tooling[p] = "completed"
        /\ tooling[q] = "downloading"
        /\ tooling[r] = "failed"
        /\ r \in failures
        /\ operations[q].last = "none"

\* C21 (as stated): subprocess_call raises a ProcessError exactly when the
\* child exits with a non-zero return code, only after every output line has
\* been logged in order, with the captured output attached to the error, and
\* the command is started once.
C21_ProcessErrorWithOutput ==
    /\ process_call.pc = "done" =>
           /\ process_call.outcome = "raised" <=> process_call.returncode # 0
           /\ process_call.outcome = "raised" =>
                  /\ process_call.error.type = "ProcessError"
                  /\ process_log = process_call.output
                  /\ process_call.error.output = process_call.output
    /\ process_call.spawned <= 1

\* The field of the last construction's class took the alias key's value
\* when one was given and its default otherwise.
AliasValueOrDefault(f) ==
    LET field == AliasedFields(alias_construction.class)[f]
        given == alias_construction.data[field.alias]
    IN  alias_construction.object[f] = IF given # Omitted THEN given ELSE field.default

\* C22 (as stated): for a model field declared with an alias, a value under
\* the alias key sets the field, a value under the field's name is not used
\* and the field keeps its default, and with both keys the alias value wins.
C22_AliasSetsNameUnused ==
    alias_construction.called =>
        /\ alias_construction.outcome = "constructed"
        /\ \A f \in DOMAIN AliasedFields(alias_construction.class) :
               AliasValueOrDefault(f)

\* C22 (amended): a value under the alias key sets the field, and with both
\* keys the alias value wins; a value under the field's name is never used:
\* a model that ignores extra keys (the test's Model) is constructed with
\* the field at its default, and a model declared with extra=forbid
\* (CPPythonData) rejects the construction with a validation error.
C22_AliasSetsNameExtra ==
    alias_construction.called =>
        LET fields == AliasedFields(alias_construction.class)
            name_given == \E f \in DOMAIN fields : alias_construction.data[f] # Omitted
        IN  IF alias_extra(alias_construction.class) = "forbid" /\ name_given
            THEN alias_construction.outcome = "ValidationError"
            ELSE /\ alias_construction.outcome = "constructed"
                 /\ \A f \in DOMAIN fields : AliasValueOrDefault(f)

\* The test's Model was given False under the alias and True under the
\* field's name, and holds False.
C22_Witness ==
    /\ alias_construction.class = "Model"
    /\ alias_construction.data["aliased_variable"] = "True"
    /\ alias_construction.data["aliased-variable"] = "False"
    /\ alias_construction.outcome = "constructed"
    /\ alias_construction.object["aliased_variable"] = "False"

\* C23 (as stated): for every plugin class and every order in which the
\* classes, subclasses included, request their logger, logger() returns the
\* logger named cppython.<group>.<name> of that class's own group and name,
\* and repeated calls return the same logger.
C23_LoggerOfOwnGroupAndName ==
    \A class \in PluginClasses :
        logger_calls[class].called =>
            /\ logger_calls[class].value = <<"cppython", group(class), plugin_name(class)>>
            /\ logger_calls[class].same

\* C24: after every resolution operation (resolve_pep621, resolve_cppython,
\* resolve_cppython_plugin, PEP621.resolve, CPPythonData.resolve,
\* generator_resolve), every object that existed before the call holds the
\* fields it held before, and a returned value is an object that did not
\* exist before the call.
C24_InputsUnchangedResultNew ==
    /\ Len(heap) >= Len(frame_call.before)
    /\ \A i \in 1..Len(frame_call.before) : heap[i] = frame_call.before[i]
    /\ frame_call.outcome = "returned" =>
           /\ frame_call.result > Len(frame_call.before)
           /\ frame_call.result <= Len(heap)

\* PEP621.resolve returned a resolved model whose version is the project's,
\* not the one its input still holds.
C24_Witness ==
    /\ frame_call.operation = "PEP621.resolve"
    /\ frame_call.outcome = "returned"
    /\ heap[frame_call.result].fields["version"] # heap[1].fields["version"]
    /\ heap[1].fields["version"] = TextValue("str", "1.0.0")


\* C25: when two resolutions make the same directories at the same time, in
\* every interleaving of their system calls no resolution fails on a path
\* that is a directory, none fails at all on a file system without a regular
\* file in the way, and when both have returned every directory of both
\* exists.
C25_RacingMkdirSafe ==
    /\ \A w \in Workers :
           workers[w].outcome = "raised" =>
               /\ workers[w].failed \notin fs.dirs
               /\ fs.files # ManifestFiles
    /\ (\A w \in Workers : workers[w].outcome = "returned") =>
           \A w \in Workers : \A i \in 1..Len(workers[w].directories) :
               workers[w].directories[i] \in fs.dirs

\* Both resolutions returned, and each met a directory that the other made
\* after it was found missing.
C25_Witness ==
    /\ \A w \in Workers : workers[w].outcome = "returned" /\ workers[w].raced
    /\ workers[1].directories = workers[2].directories


\* C26: when "version" is not in dynamic and the configuration holds no
\* version, resolve_pep621 raises at once: it returns no data, it does not
\* ask the SCM plugin whatever project version and plugin it is given, and
\* the exception it raises differs from the one raised for a dynamic
\* version that nothing supplies (in its message; both are a ValueError).
C26_SchemaFailureDistinct ==
    (/\ pep621_call.called
     /\ ~CallDynamic
     /\ pep621_call.configuration.version = None)
    => /\ pep621_call.result.outcome = "raised"
       /\ pep621_call.result.value = NoData
       /\ pep621_call.result.scm_calls = <<>>
       /\ pep621_call.result.error.type = "ValueError"
       /\ pep621_call.result.error # NoSourceError(<<>>).error

\* A configuration without a version and without "version" in dynamic is
\* resolved with a project version and an SCM plugin at hand, and fails.
C26_Witness ==
    /\ pep621_call.called
    /\ ~CallDynamic
    /\ pep621_call.configuration.version = None
    /\ pep621_call.project.version = "0.1.0"
    /\ pep621_call.scm.present
    /\ pep621_call.result.outcome = "raised"
    /\ pep621_call.result.error.message = "Version can't be resolved. Schema error"

=============================================================================
